---- MODULE Spec2Model ----
(***************************************************************************)
(* The status-display rendering engine of pwnagotchi (round display port). *)
(* View (src/pwnagotchi/ui/view.py) owns a State of keyed widgets, a       *)
(* render lock, a canvas and a frozen flag.  A periodic ticker thread      *)
(* (_refresh_handler, only when ui.fps > 0) and the agent's thread call    *)
(* set() and update() concurrently.  Strings are sequences of characters.  *)
(***************************************************************************)
EXTENDS Integers, Sequences, FiniteSets, TLC

VARIABLES
    fps,            \* config['ui']['fps']
    ignore_changes, \* View._ignore_changes
    state,          \* State._state: key -> widget value
    dirty,          \* State's per-key "dirty since last reset" markers
    faceImage,      \* the face widget's image attribute
    frozen,         \* View._frozen
    lock,           \* View._lock: the thread holding it, or NoThread
    canvas,         \* View._canvas: no image yet, or an image and what is painted on it
    sinks,          \* last canvas handed to web.update_frame / the render callbacks
    pc,             \* position of each thread
    force,          \* update()'s force argument, per thread
    new_data,       \* update()'s new_data items still to be applied, per thread
    ret,            \* where the thread continues after update() returns
    changes,        \* update()'s local 'changes', per thread
    idx,            \* number of widgets already drawn by the thread's frame
    name,           \* _refresh_handler's local 'name'
    clean,          \* history: a frame completed and no set() was called since
    frozenAtCall,   \* history: the thread's current update() began with frozen set
    nameHist,       \* history: stored names before the last ticks (no other writer since)
    seen,           \* history: values each key had since the lock was taken (SpecFresh)
    order,          \* State's keys in insertion order (the order of State.items())
    render_cbs,     \* View._render_cbs
    faceFrames,     \* the face widget's _frames
    faceIndex,      \* the face widget's _frame_index
    loaded,         \* whether the memtemp plugin is among the loaded plugins
    upc,            \* position of the thread that unloads the memtemp plugin
    handed,         \* history: the image in View._canvas was handed to a sink
    trace,          \* history: the steps of each thread's current update()
    kdraws,         \* history: draw calls on the face widget since set_frames
    textOp,         \* history: the last call on the face widget exercised alone
    fc,             \* faces_img: _face_cache, the asset on disk, the callers
    cv,             \* a CurvedText widget and the glyphs its draw pasted
    sk,             \* a display sink: its device and what render did
    kp,             \* identity.KeyPair: the key files and the constructor's progress
    api             \* the last call of a View method exercised alone, and its result

vars == <<fps, ignore_changes, state, dirty, faceImage, frozen, lock, canvas, sinks,
          pc, force, new_data, ret, changes, idx, name, clean, frozenAtCall, nameHist,
          seen, order, render_cbs, faceFrames, faceIndex, loaded, upc, handed, trace, kdraws,
          textOp, fc, cv, sk, kp, api>>

\* the components exercised on their own
unitVars == <<fc, cv, sk, kp, api>>

\* the State's shape, the sinks and the plugin; the face widget's animation
extVars == <<order, render_cbs, loaded, upc, kdraws, textOp, unitVars>>
textVars == <<faceFrames, faceIndex>>
histVars == <<handed, trace>>

----------------------------------------------------------------------------
(* Bounds *)

\* the ticker stops toggling once the stored name is this long
MaxNameLen == 16

----------------------------------------------------------------------------
(* Values *)

None == <<"None">>
NoThread == "none"
Threads == {"ticker", "agent"}

\* opaque strings of the voice and faces collaborators
VoiceDefault == <<"voice.default">>
VoiceShutdown == <<"voice.on_shutdown">>
SLEEP == <<"faces.SLEEP">>
AWAKE == <<"faces.AWAKE">>

\* View._canvas before the first frame (None), and a new black image
NoCanvas == [made |-> FALSE, px |-> <<>>]
BlankCanvas == [made |-> TRUE, px |-> <<>>]

Whitespace == {" ", "\t", "\n"}
Block == "BLOCK"  \* the busy indicator character U+2588

PaintOrder ==
    <<"channel", "aps", "uptime", "face", "friend_face", "friend_name",
      "name", "status", "shakes", "mode">>

InitialState ==
    [channel |-> <<"C","H"," ","0","0">>,
     aps |-> <<"A","P","S"," ","0"," ","(","0","0",")">>,
     uptime |-> <<"U","P"," ","0","0",":","0","0",":","0","0">>,
     face |-> SLEEP,
     friend_face |-> None,
     friend_name |-> None,
     name |-> <<"p","w","n","a","g","o","t","c","h","i",">">>,
     status |-> VoiceDefault,
     shakes |-> <<"P","W","N","D"," ","0"," ","(","0","0",")">>,
     mode |-> <<"A","U","T","O">>]

----------------------------------------------------------------------------
(* State (pwnagotchi/ui/state.py): keyed widgets and their dirty markers *)

\* State.get(key): the widget's value, None for an unknown key
StateGet(key) == IF key \in DOMAIN state THEN state[key] ELSE None

\* State.set(key, value): stores the value and marks the key dirty;
\* an unknown key is left alone
StateSet(key, value) ==
    IF key \in DOMAIN state
    THEN /\ state' = [state EXCEPT ![key] = value]
         /\ dirty' = dirty \cup {key}
    ELSE UNCHANGED <<state, dirty>>

\* State.changes(ignore): the dirty keys minus the ignore set
StateChanges(ignore) == dirty \ ignore

\* State.reset(): clears all dirty markers
StateReset == dirty' = {}

----------------------------------------------------------------------------
(* String helpers of View *)

RECURSIVE RStrip(_, _)
\* str.rstrip(chars): drops the trailing characters that are in chars
RStrip(s, chars) ==
    IF Len(s) > 0 /\ s[Len(s)] \in chars
    THEN RStrip(SubSeq(s, 1, Len(s) - 1), chars)
    ELSE s

RECURSIVE LStrip(_, _)
LStrip(s, chars) ==
    IF Len(s) > 0 /\ s[1] \in chars THEN LStrip(Tail(s), chars) ELSE s

\* str.strip(): drops leading and trailing whitespace
Strip(s) == LStrip(RStrip(s, Whitespace), Whitespace)

Contains(s, c) == \E i \in 1..Len(s) : s[i] = c

\* _refresh_handler's toggle of the busy indicator
ToggleName(n) ==
    IF Contains(n, Block) THEN Strip(RStrip(n, {Block})) ELSE n \o <<" ", Block>>

\* faulty variant: the name is stored without its prompt character
FormatPlainName(key, value) ==
    CASE key = "channel" -> <<"C","H"," ">> \o value
      [] key = "aps" -> <<"A","P","S"," ">> \o value
      [] key = "uptime" -> <<"U","P"," ">> \o value
      [] key = "shakes" -> <<"P","W","N","D"," ">> \o value
      [] OTHER -> value

\* View.set's key-specific formatting
Format(key, value) ==
    CASE key = "channel" -> <<"C","H"," ">> \o value
      [] key = "aps" -> <<"A","P","S"," ">> \o value
      [] key = "uptime" -> <<"U","P"," ">> \o value
      [] key = "shakes" -> <<"P","W","N","D"," ">> \o value
      [] key = "name" -> value \o <<">">>
      [] OTHER -> value

\* View._get_face_name_from_value: face text -> asset name, None if unmapped
FaceName(value) ==
    CASE value = SLEEP -> <<"sleep">>
      [] value = AWAKE -> <<"awake">>
      [] OTHER -> None

\* faulty variant: a set() on a key that is not registered creates the entry
ViewSetCreates(key, value, found) ==
    /\ faceImage' =
         IF key = "face" /\ FaceName(Format(key, value)) # None /\ found
            /\ "face" \in DOMAIN state
         THEN FaceName(Format(key, value))
         ELSE faceImage
    /\ state' = [k \in DOMAIN state \cup {key} |->
                   IF k = key THEN Format(key, value) ELSE state[k]]
    /\ dirty' = dirty \cup {key}

\* View.set(key, value); found: whether faces_img.get_face_image returned an image
ViewSet(key, value, found) ==
    /\ faceImage' =
         IF key = "face" /\ FaceName(Format(key, value)) # None /\ found
            /\ "face" \in DOMAIN state
         THEN FaceName(Format(key, value))
         ELSE faceImage
    /\ StateSet(key, Format(key, value))

----------------------------------------------------------------------------
(* Inputs *)

FpsValues == {0, 1}

\* the memtemp widget's value at on_ui_setup, and the data of on_ui_update
MemInit == <<"mem:-">>
MemData == <<"mem:42">>

Hi == <<"h","i">>
DeviceName == <<"p","w","n","a","g","o","t","c","h","i">>

\* the (key, value) arguments of the agent's set() calls
SetInputs ==
    {<<"status", Hi>>, <<"uptime", <<"0","0",":","0","1">>>>, <<"name", DeviceName>>}

\* the new_data arguments of the agent's update() calls, as item sequences
Patches == {<<>>, <<<<"status", Hi>>>>}

----------------------------------------------------------------------------
(* History variables *)

NoVals == [k \in {} |-> {}]

\* nothing is recorded / recording, no set() since the lock was taken
SeenOff == [on |-> FALSE, vals |-> NoVals]
SeenOn == [on |-> TRUE, vals |-> NoVals]

\* while a thread holds the lock: the value the key had when the lock was
\* taken and every value stored for it since
SeenAfterSet(key) ==
    IF ~seen.on \/ lock = NoThread \/ key \notin DOMAIN state THEN seen
    ELSE [seen EXCEPT !.vals =
            [k \in DOMAIN seen.vals \cup {key} |->
               IF k # key THEN seen.vals[k]
               ELSE (IF k \in DOMAIN seen.vals THEN seen.vals[k] ELSE {state[k]})
                    \cup {state'[k]}]]

\* any set() ends the "nothing set since the last frame" period
HistSet(t, key) ==
    /\ clean' = FALSE
    /\ nameHist' =
         IF key # "name" THEN nameHist
         ELSE IF t # "ticker" \/ name # state["name"] THEN <<>>
         ELSE IF Len(nameHist) < 2 THEN Append(nameHist, state["name"])
         ELSE <<nameHist[2], state["name"]>>
    /\ seen' = SeenAfterSet(key)

----------------------------------------------------------------------------
(* View.__init__ *)

\* faulty variant: nothing is ignored when the periodic refresh is disabled
IgnoreNothing(f) == {}

\* self._ignore_changes, by config['ui']['fps']
IgnoreChanges(f) == IF f > 0 THEN {} ELSE {"uptime", "name"}

----------------------------------------------------------------------------
(* faces_img: the frame cache *)

MaxLoads == 3

\* the callers of get_face_frames
Callers == {"c1", "c2"}

\* face_name arguments (one asset, two spellings) and size arguments
Names == {"happy", "Happy"}
Sizes == {<<160, 160>>, <<80, 80>>}

\* face_name.lower()
Lower(nm) == IF nm = "Happy" THEN "happy" ELSE nm

\* cache_key = (face_name.lower(), size)
CacheKey(nm, sz) == <<Lower(nm), sz>>
CacheKeys == {CacheKey(nm, sz) : nm \in Names, sz \in Sizes}

\* list objects are numbered in the order of their creation; 0 is an empty list
EmptyList == 0

\* the module as imported: nothing cached; the PNG may be missing, present, or
\* present and undecodable
FcInit ==
    [cache |-> [k \in CacheKeys |-> EmptyList],
     disk |-> "missing",
     made |-> 0,
     madeFor |-> [i \in 1..(MaxLoads + 1) |-> <<>>],
     pc |-> [c \in Callers |-> "idle"],
     nm |-> [c \in Callers |-> "happy"],
     sz |-> [c \in Callers |-> <<160, 160>>],
     obj |-> [c \in Callers |-> EmptyList],
     ret |-> [c \in Callers |-> EmptyList],
     out |-> [c \in Callers |-> "none"],
     given |-> [k \in CacheKeys |-> {}],
     loads |-> [k \in CacheKeys |-> 0],
     old |-> {}]

\* no CurvedText constructed yet
CvInit ==
    [made |-> FALSE, value |-> None, font |-> 0, flip |-> FALSE,
     start_angle |-> 0, radius |-> 0, called |-> FALSE, raised |-> FALSE,
     placed |-> <<>>, pasted |-> {}, tiles |-> <<>>, tl |-> FALSE]

\* no display sink constructed yet
SkInit ==
    [made |-> FALSE, kind |-> "none", init |-> "none", failedAt |-> 0,
     handle |-> FALSE, renders |-> 0, canvas |-> None, fault |-> "none",
     raised |-> FALSE, sent |-> FALSE]

\* no KeyPair constructed yet
KpInit == [pc |-> "none", priv |-> "missing", pub |-> "missing", attempt |-> 0, log |-> <<>>]

\* no View method called yet
ApiInit ==
    [op |-> "none", i |-> 0, frame |-> 0, calls |-> <<>>, first |-> <<>>, again |-> FALSE,
     key |-> "", result |-> None,
     peer |-> [present |-> FALSE, rssi |-> 0, name |-> <<>>, run |-> 0, total |-> 0,
               face |-> None],
     total |-> 0, updates |-> 0]

UnitInit == fc = FcInit /\ cv = CvInit /\ sk = SkInit /\ kp = KpInit /\ api = ApiInit

\* no call on the face widget yet
NoOp ==
    [op |-> "none", prior |-> 0, arg |-> [given |-> FALSE, frames |-> <<>>],
     face |-> None, paste |-> FALSE, shown |-> [kind |-> "none", what |-> None],
     image |-> None, value |-> None, wrap |-> FALSE, max_length |-> 0]

\* the parts of a View built without plugins, with the display's callback
\* registered; the face Text widget as constructed
Defaults ==
    /\ order = PaintOrder
    /\ render_cbs = <<"display">>
    /\ faceFrames = <<>>
    /\ faceIndex = 0
    /\ loaded = FALSE
    /\ upc = "off"
    /\ handed = FALSE
    /\ trace = [t \in Threads |-> <<>>]
    /\ kdraws = 0
    /\ textOp = NoOp
    /\ UnitInit

InitObserved(s) ==
    /\ seen = s
    /\ Defaults
    /\ fps \in FpsValues
    /\ ignore_changes = IgnoreChanges(fps)
    /\ state = InitialState
    /\ dirty = {}
    /\ faceImage = None
    /\ frozen = FALSE
    /\ lock = NoThread
    /\ canvas = NoCanvas
    /\ sinks = [web |-> NoCanvas, display |-> NoCanvas]
    /\ pc = [t \in Threads |->
               IF t = "agent" THEN "idle" ELSE IF fps > 0 THEN "tick" ELSE "off"]
    /\ force = [t \in Threads |-> FALSE]
    /\ new_data = [t \in Threads |-> <<>>]
    /\ ret = [t \in Threads |-> IF t = "agent" THEN "idle" ELSE "tick"]
    /\ changes = [t \in Threads |-> {}]
    /\ idx = [t \in Threads |-> 0]
    /\ name = None
    /\ clean = FALSE
    /\ frozenAtCall = [t \in Threads |-> FALSE]
    /\ nameHist = <<>>

Init == InitObserved(SeenOff)

----------------------------------------------------------------------------
(* View.update(force, new_data) *)

\* history: thread t's update() performs step e
Log(t, e) == trace' = [trace EXCEPT ![t] = Append(@, e)]

\* the call itself: binds the arguments; the patch loop runs first
UpdateCall(t, f, nd, r) ==
    /\ force' = [force EXCEPT ![t] = f]
    /\ new_data' = [new_data EXCEPT ![t] = nd]
    /\ ret' = [ret EXCEPT ![t] = r]
    /\ frozenAtCall' = [frozenAtCall EXCEPT ![t] = frozen]
    /\ pc' = [pc EXCEPT ![t] = IF nd = <<>> THEN "acquire" ELSE "patch"]

\* for key, val in new_data.items(): self.set(key, val)
Patch(t) ==
    /\ UNCHANGED <<extVars, textVars, histVars>>
    /\ pc[t] = "patch"
    /\ LET kv == Head(new_data[t]) IN
         /\ \E found \in (IF kv[1] = "face" THEN BOOLEAN ELSE {FALSE}) :
              ViewSet(kv[1], kv[2], found)
         /\ HistSet(t, kv[1])
    /\ new_data' = [new_data EXCEPT ![t] = Tail(@)]
    /\ pc' = [pc EXCEPT ![t] = IF Tail(new_data[t]) = <<>> THEN "acquire" ELSE "patch"]
    /\ UNCHANGED <<fps, ignore_changes, frozen, lock, canvas, sinks, force, ret,
                   changes, idx, name, frozenAtCall>>

\* faulty variant: the lock is not exclusive
LockFreeAlways(t) == TRUE

\* Lock.acquire: possible only while no thread holds the lock
LockFree(t) == lock = NoThread

\* with self._lock:
Acquire(t) ==
    /\ UNCHANGED <<extVars, textVars, histVars>>
    /\ pc[t] = "acquire"
    /\ LockFree(t)
    /\ lock' = t
    /\ pc' = [pc EXCEPT ![t] = "frozen"]
    /\ seen' = [seen EXCEPT !.vals = NoVals]
    /\ UNCHANGED <<fps, ignore_changes, state, dirty, faceImage, frozen, canvas, sinks,
                   force, new_data, ret, changes, idx, name, clean, frozenAtCall,
                   nameHist>>

\* faulty variant: a forced update passes the frozen check
SuppressedUnlessForced(t) == frozen /\ ~force[t]

\* if self._frozen
Suppressed(t) == frozen

\* if self._frozen: return
FrozenCheck(t) ==
    /\ UNCHANGED <<extVars, textVars, histVars>>
    /\ pc[t] = "frozen"
    /\ pc' = [pc EXCEPT ![t] = IF Suppressed(t) THEN "release" ELSE "changes"]
    /\ UNCHANGED <<fps, ignore_changes, state, dirty, faceImage, frozen, lock, canvas,
                   sinks, force, new_data, ret, changes, idx, name, clean, frozenAtCall,
                   nameHist, seen>>

\* faulty variant: force is not consulted
ShouldRenderNoForce(f, ch) == ch # {}

\* if force or len(changes)
ShouldRender(f, ch) == f \/ ch # {}

\* changes = state.changes(ignore=self._ignore_changes); if force or len(changes):
ComputeChanges(t) ==
    /\ UNCHANGED <<extVars, textVars, histVars>>
    /\ pc[t] = "changes"
    /\ changes' = [changes EXCEPT ![t] = StateChanges(ignore_changes)]
    /\ pc' = [pc EXCEPT ![t] =
                IF ShouldRender(force[t], changes'[t]) THEN "alloc" ELSE "release"]
    /\ UNCHANGED <<fps, ignore_changes, state, dirty, faceImage, frozen, lock, canvas,
                   sinks, force, new_data, ret, idx, name, clean, frozenAtCall, nameHist, seen>>

\* faulty variant: the frame clears and reuses the image of the last frame
AllocReuse(t) ==
    /\ pc[t] = "alloc"
    /\ canvas' = BlankCanvas
    /\ handed' = handed
    /\ Log(t, "alloc")
    /\ pc' = [pc EXCEPT ![t] = "hook"]
    /\ UNCHANGED <<extVars, textVars>>
    /\ UNCHANGED <<fps, ignore_changes, state, dirty, faceImage, frozen, lock, sinks,
                   force, new_data, ret, changes, idx, name, clean, frozenAtCall,
                   nameHist, seen>>

\* faulty variant: the frame starts drawing without invoking the hook
AllocSkipHook(t) ==
    /\ pc[t] = "alloc"
    /\ canvas' = BlankCanvas
    /\ handed' = FALSE
    /\ Log(t, "alloc")
    /\ pc' = [pc EXCEPT ![t] = "draw"]
    /\ UNCHANGED <<extVars, textVars>>
    /\ UNCHANGED <<fps, ignore_changes, state, dirty, faceImage, frozen, lock, sinks,
                   force, new_data, ret, changes, idx, name, clean, frozenAtCall,
                   nameHist, seen>>

\* self._canvas = Image.new(...); drawer = ImageDraw.Draw(self._canvas)
Alloc(t) ==
    /\ pc[t] = "alloc"
    /\ canvas' = BlankCanvas
    /\ handed' = FALSE
    /\ Log(t, "alloc")
    /\ pc' = [pc EXCEPT ![t] = "hook"]
    /\ UNCHANGED <<extVars, textVars>>
    /\ UNCHANGED <<fps, ignore_changes, state, dirty, faceImage, frozen, lock, sinks,
                   force, new_data, ret, changes, idx, name, clean, frozenAtCall,
                   nameHist, seen>>

\* plugins.on('ui_update', self): MemTemp.on_ui_update, when the plugin is loaded,
\* calls ui.set('memtemp', data); then state.items() starts the paint loop
Hook(t) ==
    /\ pc[t] = "hook"
    /\ IF loaded
       THEN ViewSet("memtemp", MemData, FALSE) /\ HistSet(t, "memtemp")
       ELSE UNCHANGED <<state, dirty, faceImage, clean, nameHist, seen>>
    /\ idx' = [idx EXCEPT ![t] = 0]
    /\ Log(t, "hook")
    /\ pc' = [pc EXCEPT ![t] = "draw"]
    /\ UNCHANGED <<extVars, textVars, handed>>
    /\ UNCHANGED <<fps, ignore_changes, frozen, lock, canvas, sinks, force, new_data,
                   ret, changes, name, frozenAtCall>>

\* Text.draw, animation part: the image the face widget shows at this draw
TextShown == IF Len(faceFrames) > 1 THEN faceFrames[faceIndex + 1] ELSE faceImage

\* faulty variant: the cursor advances before the frame is shown
TextDrawShowNext ==
    /\ faceImage' =
         IF Len(faceFrames) > 1
         THEN faceFrames[((faceIndex + 1) % Len(faceFrames)) + 1]
         ELSE faceImage
    /\ faceIndex' =
         IF Len(faceFrames) > 1 THEN (faceIndex + 1) % Len(faceFrames) ELSE faceIndex

\* Text.draw, animation part: if self._frames and len(self._frames) > 1: ...
TextDraw ==
    /\ faceImage' = TextShown
    /\ faceIndex' =
         IF Len(faceFrames) > 1 THEN (faceIndex + 1) % Len(faceFrames) ELSE faceIndex

\* faulty variant: the widget is painted with the value it was created with
PaintedInitial(key) ==
    [key |-> key,
     value |-> IF key \in DOMAIN InitialState THEN InitialState[key] ELSE None,
     image |-> IF key = "face" THEN TextShown ELSE None]

\* what lv.draw paints for the widget of key: its value, and the face's image
Painted(key) ==
    [key |-> key, value |-> state[key],
     image |-> IF key = "face" THEN TextShown ELSE None]

\* faulty variant: the widgets are visited from the last key to the first
NextWidgetReversed(t) == order[Len(order) - idx[t]]

\* the next (key, widget) pair of the iteration over state.items()
NextWidget(t) == order[idx[t] + 1]

\* for key, lv in state.items(): lv.draw(self._canvas, drawer)  (one widget)
Draw(t) ==
    /\ pc[t] = "draw"
    /\ idx[t] < Len(order)
    /\ canvas' = [canvas EXCEPT !.px = Append(@, Painted(NextWidget(t)))]
    /\ IF NextWidget(t) = "face" THEN TextDraw ELSE UNCHANGED <<faceImage, faceIndex>>
    /\ Log(t, NextWidget(t))
    /\ idx' = [idx EXCEPT ![t] = @ + 1]
    /\ pc' = [pc EXCEPT ![t] = IF idx[t] + 1 = Len(order) THEN "web" ELSE "draw"]
    /\ UNCHANGED <<extVars, faceFrames, handed>>
    /\ UNCHANGED <<fps, ignore_changes, state, dirty, frozen, lock, sinks,
                   force, new_data, ret, changes, name, clean, frozenAtCall, nameHist, seen>>

\* web.update_frame(self._canvas)
WebUpdate(t) ==
    /\ pc[t] = "web"
    /\ sinks' = [sinks EXCEPT !.web = canvas]
    /\ handed' = TRUE
    /\ Log(t, "web")
    /\ pc' = [pc EXCEPT ![t] = "render"]
    /\ UNCHANGED <<extVars, textVars>>
    /\ UNCHANGED <<fps, ignore_changes, state, dirty, faceImage, frozen, lock, canvas,
                   force, new_data, ret, changes, idx, name, clean, frozenAtCall,
                   nameHist, seen>>

\* cb in self._render_cbs
IsCallback(s) == \E i \in 1..Len(render_cbs) : render_cbs[i] = s

\* for cb in self._render_cbs: cb(self._canvas)
Render(t) ==
    /\ pc[t] = "render"
    /\ sinks' = [s \in DOMAIN sinks |-> IF IsCallback(s) THEN canvas ELSE sinks[s]]
    /\ handed' = TRUE
    /\ Log(t, "render")
    /\ pc' = [pc EXCEPT ![t] = "reset"]
    /\ UNCHANGED <<extVars, textVars>>
    /\ UNCHANGED <<fps, ignore_changes, state, dirty, faceImage, frozen, lock, canvas,
                   force, new_data, ret, changes, idx, name, clean, frozenAtCall,
                   nameHist, seen>>

\* faulty variant: the frame ends without State.reset()
FrameEndNoReset(t) ==
    /\ pc[t] = "reset"
    /\ Log(t, "reset")
    /\ UNCHANGED <<extVars, textVars, handed>>
    /\ clean' = TRUE
    /\ pc' = [pc EXCEPT ![t] = "release"]
    /\ UNCHANGED <<fps, ignore_changes, state, dirty, faceImage, frozen, lock, canvas,
                   sinks, force, new_data, ret, changes, idx, name, frozenAtCall,
                   nameHist, seen>>

\* self._state.reset(), the last statement of the frame
FrameEnd(t) ==
    /\ pc[t] = "reset"
    /\ Log(t, "reset")
    /\ UNCHANGED <<extVars, textVars, handed>>
    /\ StateReset
    /\ clean' = TRUE
    /\ pc' = [pc EXCEPT ![t] = "release"]
    /\ UNCHANGED <<fps, ignore_changes, state, faceImage, frozen, lock, canvas, sinks,
                   force, new_data, ret, changes, idx, name, frozenAtCall, nameHist, seen>>

\* leaving the with block (also by the early return) releases the lock
Release(t) ==
    /\ pc[t] = "release"
    /\ lock' = IF lock = t THEN NoThread ELSE lock
    /\ pc' = [pc EXCEPT ![t] = ret[t]]
    /\ force' = [force EXCEPT ![t] = FALSE]
    /\ changes' = [changes EXCEPT ![t] = {}]
    /\ idx' = [idx EXCEPT ![t] = 0]
    /\ frozenAtCall' = [frozenAtCall EXCEPT ![t] = FALSE]
    /\ trace' = [trace EXCEPT ![t] = <<>>]
    /\ seen' = [seen EXCEPT !.vals = NoVals]
    /\ UNCHANGED <<extVars, textVars, handed>>
    /\ UNCHANGED <<fps, ignore_changes, state, dirty, faceImage, frozen, canvas, sinks,
                   new_data, ret, name, clean, nameHist>>

Update(t) ==
    \/ Patch(t)
    \/ Acquire(t)
    \/ FrozenCheck(t)
    \/ ComputeChanges(t)
    \/ Alloc(t)
    \/ Hook(t)
    \/ Draw(t)
    \/ WebUpdate(t)
    \/ Render(t)
    \/ FrameEnd(t)
    \/ Release(t)

----------------------------------------------------------------------------
(* View._refresh_handler, the periodic task *)

\* name = self._state.get('name')
TickGet ==
    /\ UNCHANGED <<extVars, textVars, histVars>>
    /\ pc["ticker"] = "tick"
    /\ Len(Format("name", ToggleName(StateGet("name")))) <= MaxNameLen
    /\ name' = StateGet("name")
    /\ pc' = [pc EXCEPT !["ticker"] = "tick_set"]
    /\ UNCHANGED <<fps, ignore_changes, state, dirty, faceImage, frozen, lock, canvas,
                   sinks, force, new_data, ret, changes, idx, clean, frozenAtCall,
                   nameHist, seen>>

\* self.set('name', ...); self.update()
TickSet ==
    /\ UNCHANGED <<extVars, textVars, histVars>>
    /\ pc["ticker"] = "tick_set"
    /\ ViewSet("name", ToggleName(name), FALSE)
    /\ HistSet("ticker", "name")
    /\ UpdateCall("ticker", FALSE, <<>>, "tick")
    /\ name' = None
    /\ UNCHANGED <<fps, ignore_changes, frozen, lock, canvas, sinks, changes, idx>>

----------------------------------------------------------------------------
(* The agent's thread: set(), update() and on_shutdown() *)

AgentSet ==
    /\ UNCHANGED <<extVars, textVars, histVars>>
    /\ pc["agent"] = "idle"
    /\ \E kv \in SetInputs :
         /\ ViewSet(kv[1], kv[2], FALSE)
         /\ HistSet("agent", kv[1])
    /\ UNCHANGED <<fps, ignore_changes, frozen, lock, canvas, sinks, pc, force,
                   new_data, ret, changes, idx, name, frozenAtCall>>

AgentUpdate ==
    /\ UNCHANGED <<extVars, textVars, histVars>>
    /\ pc["agent"] = "idle"
    /\ \E f \in BOOLEAN, nd \in Patches : UpdateCall("agent", f, nd, "idle")
    /\ UNCHANGED <<fps, ignore_changes, state, dirty, faceImage, frozen, lock, canvas,
                   sinks, changes, idx, name, clean, nameHist, seen>>

\* on_shutdown: self.set('face', faces.SLEEP)
ShutdownFace ==
    /\ UNCHANGED <<extVars, textVars, histVars>>
    /\ pc["agent"] = "idle"
    /\ \E found \in BOOLEAN : ViewSet("face", SLEEP, found)
    /\ HistSet("agent", "face")
    /\ pc' = [pc EXCEPT !["agent"] = "sd_status"]
    /\ UNCHANGED <<fps, ignore_changes, frozen, lock, canvas, sinks, force, new_data,
                   ret, changes, idx, name, frozenAtCall>>

\* on_shutdown: self.set('status', ...); self.update(force=True)
ShutdownStatus ==
    /\ UNCHANGED <<extVars, textVars, histVars>>
    /\ pc["agent"] = "sd_status"
    /\ ViewSet("status", VoiceShutdown, FALSE)
    /\ HistSet("agent", "status")
    /\ UpdateCall("agent", TRUE, <<>>, "sd_freeze")
    /\ UNCHANGED <<fps, ignore_changes, frozen, lock, canvas, sinks, changes, idx, name>>

\* on_shutdown: self._frozen = True
ShutdownFreeze ==
    /\ UNCHANGED <<extVars, textVars, histVars>>
    /\ pc["agent"] = "sd_freeze"
    /\ frozen' = TRUE
    /\ pc' = [pc EXCEPT !["agent"] = "idle"]
    /\ ret' = [ret EXCEPT !["agent"] = "idle"]
    /\ UNCHANGED <<fps, ignore_changes, state, dirty, faceImage, lock, canvas, sinks,
                   force, new_data, changes, idx, name, clean, frozenAtCall, nameHist, seen>>

----------------------------------------------------------------------------

Next ==
    \/ \E t \in Threads : Update(t)
    \/ TickGet
    \/ TickSet
    \/ AgentSet
    \/ AgentUpdate
    \/ ShutdownFace
    \/ ShutdownStatus
    \/ ShutdownFreeze

Spec == Init /\ [][Next]_vars

----------------------------------------------------------------------------
(* The sequential use of set(): one update(force, {key: value}) call on a   *)
(* View without ticker, the key and value drawn from FormatInputs           *)

RawValues == {<<"6">>, <<"f","o","o">>}

FormatInputs == ({PaintOrder[i] : i \in 1..Len(PaintOrder)} \cup {"epoch"}) \X RawValues

InitFormat ==
    /\ Defaults
    /\ fps = 0
    /\ ignore_changes = IgnoreChanges(fps)
    /\ state = InitialState
    /\ dirty = {}
    /\ faceImage = None
    /\ frozen = FALSE
    /\ lock = NoThread
    /\ canvas = NoCanvas
    /\ sinks = [web |-> NoCanvas, display |-> NoCanvas]
    /\ pc = [t \in Threads |-> IF t = "agent" THEN "patch" ELSE "off"]
    /\ \E f \in BOOLEAN : force = [t \in Threads |-> t = "agent" /\ f]
    /\ \E kv \in FormatInputs :
         new_data = [t \in Threads |-> IF t = "agent" THEN <<kv>> ELSE <<>>]
    /\ ret = [t \in Threads |-> IF t = "agent" THEN "idle" ELSE "tick"]
    /\ changes = [t \in Threads |-> {}]
    /\ idx = [t \in Threads |-> 0]
    /\ name = None
    /\ clean = FALSE
    /\ frozenAtCall = [t \in Threads |-> FALSE]
    /\ nameHist = <<>>
    /\ seen = SeenOff

NextFormat == Update("agent")

SpecFormat == InitFormat /\ [][NextFormat]_vars

----------------------------------------------------------------------------
(* The face Text widget exercised alone: set_frames, draw, and View.set *)

MaxFrames == 3
MaxDraws == 7

\* the images of an animation
FrameIds == {<<"f1">>, <<"f2">>, <<"f3">>}

\* the lists of at most MaxFrames images
FrameSeqs == UNION {[1..n -> FrameIds] : n \in 0..MaxFrames}

\* the arguments of set_frames: None (not given) or a list
FrameArgs ==
    {[given |-> FALSE, frames |-> <<>>]} \cup
    {[given |-> TRUE, frames |-> f] : f \in FrameSeqs}

\* frames if frames else []
FramesOrEmpty(fr) == IF fr.given /\ fr.frames # <<>> THEN fr.frames ELSE <<>>

\* faulty variant: the cursor is kept while it still fits the new list
TextSetFramesKeepIndex(fr) ==
    /\ faceFrames' = FramesOrEmpty(fr)
    /\ faceIndex' = IF faceIndex < Len(FramesOrEmpty(fr)) THEN faceIndex ELSE 0
    /\ faceImage' =
         IF FramesOrEmpty(fr) # <<>> THEN FramesOrEmpty(fr)[faceIndex' + 1] ELSE None

\* Text.set_frames(frames)
TextSetFrames(fr) ==
    /\ faceFrames' = FramesOrEmpty(fr)
    /\ faceIndex' = 0
    /\ faceImage' = IF FramesOrEmpty(fr) # <<>> THEN FramesOrEmpty(fr)[1] ELSE None

\* a face text that _get_face_name_from_value maps to no asset
Unmapped == <<"(?)">>

\* the face values passed to set('face', v)
FaceValues == {SLEEP, AWAKE, Unmapped}

\* the frames of the asset of a face name: awake.png is animated, first frame
\* first; get_face_image returns the first frame
AssetFrames(nm) == IF nm = <<"awake">> THEN <<nm, <<"awake#2">>>> ELSE <<nm>>

\* faulty variant: a failed paste leaves the widget blank
TextRenderNoFallback(image, value, pasteOk) ==
    IF image # None
    THEN IF pasteOk THEN [kind |-> "image", what |-> image]
         ELSE [kind |-> "none", what |-> None]
    ELSE IF value # None THEN [kind |-> "text", what |-> value]
    ELSE [kind |-> "none", what |-> None]

\* Text.draw, painting part: the image if one is set and the paste succeeds,
\* else the text value, else nothing
TextRender(image, value, pasteOk) ==
    IF image # None /\ pasteOk THEN [kind |-> "image", what |-> image]
    ELSE IF value # None THEN [kind |-> "text", what |-> value]
    ELSE [kind |-> "none", what |-> None]

\* what the calls on the widget leave alone
TextFrame ==
    <<unitVars, fps, ignore_changes, frozen, lock, canvas, sinks, pc, force, new_data, ret,
      changes, idx, name, frozenAtCall, order, render_cbs, loaded, upc, handed, trace>>

TextSetFramesCall ==
    /\ \E fr \in FrameArgs :
         /\ TextSetFrames(fr)
         /\ textOp' = [textOp EXCEPT !.op = "set_frames", !.prior = faceIndex,
                                  !.arg = fr]
    /\ kdraws' = 0
    /\ UNCHANGED <<TextFrame, state, dirty, clean, nameHist, seen>>

TextDrawCall ==
    /\ kdraws < MaxDraws
    /\ TextDraw
    /\ kdraws' = kdraws + 1
    /\ \E pasteOk \in BOOLEAN :
         textOp' = [textOp EXCEPT !.op = "draw", !.prior = faceIndex,
                                  !.paste = pasteOk,
                                  !.shown = TextRender(faceImage', state["face"], pasteOk)]
    /\ UNCHANGED <<TextFrame, faceFrames, state, dirty, clean, nameHist, seen>>

\* View.set('face', v); found: whether the asset of v's face name exists
TextImageCall ==
    /\ \E v \in FaceValues, found \in BOOLEAN :
         /\ ViewSet("face", v, found)
         /\ textOp' = [textOp EXCEPT
                         !.op = IF FaceName(v) # None /\ found THEN "image" ELSE "text",
                         !.prior = faceIndex, !.face = v]
    /\ HistSet("agent", "face")
    /\ UNCHANGED <<TextFrame, faceFrames, faceIndex, kdraws>>

InitText == Init /\ fps = 0

NextText ==
    \/ TextSetFramesCall
    \/ TextDrawCall
    \/ TextImageCall

SpecText == InitText /\ [][NextText]_vars

----------------------------------------------------------------------------
(* faces_img.get_face_frames and clear_cache, called by one or two threads *)

\* the variables of the View and its face widget
ViewVars ==
    <<fps, ignore_changes, state, dirty, faceImage, frozen, lock, canvas, sinks, pc,
      force, new_data, ret, changes, idx, name, clean, frozenAtCall, nameHist, seen, order,
      render_cbs, faceFrames, faceIndex, loaded, upc, handed, trace, kdraws, textOp>>

\* cache_key of caller c's call
KeyOf(c) == CacheKey(fc.nm[c], fc.sz[c])

\* the calls in progress
InFlight == {c \in Callers : fc.pc[c] # "idle"}

\* return o from caller c's call; how: "hit", "missing", "error" or "loaded"
FcReturn(c, o, how) ==
    [fc EXCEPT !.pc[c] = "idle", !.ret[c] = o, !.out[c] = how, !.obj[c] = EmptyList,
               !.given[KeyOf(c)] = IF o = EmptyList THEN @ ELSE @ \cup {o}]

\* get_face_frames(face_name, size) is called
FcCall(c) ==
    /\ fc.pc[c] = "idle"
    /\ fc.made + Cardinality(InFlight) < MaxLoads
    /\ \E nm \in Names, sz \in Sizes :
         fc' = [fc EXCEPT !.pc[c] = "lookup", !.nm[c] = nm, !.sz[c] = sz,
                          !.out[c] = "none"]
    /\ UNCHANGED <<ViewVars, cv, sk, kp, api>>

\* faulty variant: the cache is not consulted
FcLookupMiss(c) ==
    /\ fc.pc[c] = "lookup"
    /\ fc' = [fc EXCEPT !.pc[c] = "exists"]
    /\ UNCHANGED <<ViewVars, cv, sk, kp, api>>

\* if cache_key in _face_cache: return _face_cache[cache_key]
FcLookup(c) ==
    /\ fc.pc[c] = "lookup"
    /\ fc' = IF fc.cache[KeyOf(c)] # EmptyList
             THEN FcReturn(c, fc.cache[KeyOf(c)], "hit")
             ELSE [fc EXCEPT !.pc[c] = "exists"]
    /\ UNCHANGED <<ViewVars, cv, sk, kp, api>>

\* if not os.path.exists(face_path): return []
FcExists(c) ==
    /\ fc.pc[c] = "exists"
    /\ fc' = IF fc.disk = "missing"
             THEN FcReturn(c, EmptyList, "missing")
             ELSE [fc EXCEPT !.pc[c] = "load"]
    /\ UNCHANGED <<ViewVars, cv, sk, kp, api>>

\* faulty variant: a failing Image.open leaves get_face_frames as an exception
FcLoadRaises(c) ==
    /\ fc.pc[c] = "load"
    /\ fc' = IF fc.disk = "ok"
             THEN [fc EXCEPT !.made = @ + 1, !.obj[c] = fc.made + 1,
                             !.madeFor[fc.made + 1] = KeyOf(c),
                             !.loads[KeyOf(c)] = @ + 1, !.pc[c] = "store"]
             ELSE FcReturn(c, EmptyList, "raised")
    /\ UNCHANGED <<ViewVars, cv, sk, kp, api>>

\* img = Image.open(face_path); frames = _extract_frames(img, size), a new
\* list; except Exception: return []
FcLoad(c) ==
    /\ fc.pc[c] = "load"
    /\ fc' = IF fc.disk = "ok"
             THEN [fc EXCEPT !.made = @ + 1, !.obj[c] = fc.made + 1,
                             !.madeFor[fc.made + 1] = KeyOf(c),
                             !.loads[KeyOf(c)] = @ + 1, !.pc[c] = "store"]
             ELSE FcReturn(c, EmptyList, "error")
    /\ UNCHANGED <<ViewVars, cv, sk, kp, api>>

\* faulty variant: the loaded frames are returned but not cached
FcStoreSkip(c) ==
    /\ fc.pc[c] = "store"
    /\ fc' = FcReturn(c, fc.obj[c], "loaded")
    /\ UNCHANGED <<ViewVars, cv, sk, kp, api>>

\* _face_cache[cache_key] = frames; return frames
FcStore(c) ==
    /\ fc.pc[c] = "store"
    /\ fc' = [FcReturn(c, fc.obj[c], "loaded") EXCEPT !.cache[KeyOf(c)] = fc.obj[c]]
    /\ UNCHANGED <<ViewVars, cv, sk, kp, api>>

\* clear_cache(): _face_cache.clear()
FcClear ==
    /\ fc' = [fc EXCEPT !.cache = [k \in CacheKeys |-> EmptyList],
                        !.given = [k \in CacheKeys |-> {}],
                        !.loads = [k \in CacheKeys |-> 0],
                        !.old = 1..fc.made]
    /\ fc' # fc
    /\ UNCHANGED <<ViewVars, cv, sk, kp, api>>

\* the PNG is added, removed, or replaced by one that cannot be decoded
FcDisk ==
    /\ \E d \in {"missing", "ok", "bad"} : d # fc.disk /\ fc' = [fc EXCEPT !.disk = d]
    /\ UNCHANGED <<ViewVars, cv, sk, kp, api>>

GetFrames(c) ==
    \/ FcCall(c)
    \/ FcLookup(c)
    \/ FcExists(c)
    \/ FcLoad(c)
    \/ FcStore(c)

InitCache == Init /\ fps = 0

\* one caller at a time
NextCacheSeq ==
    \/ GetFrames("c1")
    \/ InFlight = {} /\ FcClear
    \/ InFlight = {} /\ FcDisk

SpecCacheSeq == InitCache /\ [][NextCacheSeq]_vars

\* two threads calling
NextCache == (\E c \in Callers : GetFrames(c)) \/ FcClear \/ FcDisk

SpecCache == InitCache /\ [][NextCache]_vars

----------------------------------------------------------------------------
(* CurvedText: text laid out along a circle.  Angles are in thousandths of a
   degree; a font is modelled by the width of its glyphs. *)

\* 180 / math.pi, in thousandths of a degree per radian
RadToDegMilli == 57296

\* the width assumed for a glyph when drawer.textlength raises
FallbackWidth == 6

\* 90 degrees
QuarterTurn == 90000

NL == "\n"

\* font=None
NoFont == 0

GlyphWidths == {5, 8}
Fonts == {NoFont} \cup GlyphWidths

CurvedValues ==
    {None, <<>>, <<" ">>, <<NL>>, <<" ", NL, " ">>, <<"a">>, <<" ", "a", NL>>,
     <<"a", "b">>, <<"a", NL, "b">>}

StartAngles == {0, 90000, 270000}
Radii == {50, 100}

\* str.replace('\n', ' ')
ReplaceNl(s) == [i \in 1..Len(s) |-> IF s[i] = NL THEN " " ELSE s[i]]

\* faulty variant: the text is not trimmed
CurvedTextUntrimmed(v) == ReplaceNl(v)

\* str(self.value).replace('\n', ' ').strip()
CurvedTextOf(v) == Strip(ReplaceNl(v))

\* `not self.value`
Falsy(v) == v = None \/ v = <<>>

\* the guards of draw that return before anything is drawn
CurvedSkips(v, font) ==
    \/ Falsy(v)
    \/ font = NoFont
    \/ CurvedTextOf(v) = <<>>

\* drawer.textlength(text), or the fallback when it raises
TextLength(text, font, tl) ==
    IF tl THEN Len(text) * font ELSE Len(text) * FallbackWidth

\* (width / radius) * (180 / math.pi)
AngleSpan(width, radius) == (width * RadToDegMilli) \div radius

Direction(flip) == IF flip THEN -1 ELSE 1

\* the loop over the characters: where each glyph goes and how it is turned
RECURSIVE Layout(_, _, _, _, _)
Layout(text, current_angle, cw, radius, flip) ==
    IF text = <<>> THEN <<>>
    ELSE <<[ch |-> Head(text), angle |-> current_angle,
            rotation |-> current_angle + (IF ~flip THEN QuarterTurn ELSE -QuarterTurn)]>>
         \o Layout(Tail(text), current_angle + Direction(flip) * AngleSpan(cw, radius),
                   cw, radius, flip)

\* the glyphs draw lays out for a text that passed the guards
CurvedLayout(text, font, flip, start_angle, radius, tl) ==
    LET angle_span == AngleSpan(TextLength(text, font, tl), radius)
        first == start_angle - Direction(flip) * (angle_span \div 2)
        cw == IF tl THEN font ELSE FallbackWidth
    IN Layout(text, first, cw, radius, flip)

\* the canvas is CanvasSide pixels wide and high, a rotated glyph's tile
\* TileSide pixels
CanvasSide == 4
TileSide == 2

\* paste_x, paste_y: the last position outside and the first inside, at
\* either end of the canvas
Positions == {-TileSide, 1 - TileSide, CanvasSide - 1, CanvasSide}

\* from one glyph to the next the tile moves right or down
TileSteps == {<<1, 0>>, <<0, 1>>}

\* the tiles of n glyphs, the first at (bx, by)
TilesFrom(bx, by, step, n) ==
    [i \in 1..n |-> [px |-> bx + (i - 1) * step[1], py |-> by + (i - 1) * step[2],
                     w |-> TileSide, h |-> TileSide]]

\* faulty variant: a tile that only touches the canvas edge is pasted
TilePastedTouching(t) ==
    /\ t.px + t.w >= 0
    /\ t.py + t.h >= 0
    /\ t.px <= CanvasSide
    /\ t.py <= CanvasSide

\* if (paste_x + rotated.width > 0 and paste_y + rotated.height > 0
\*         and paste_x < canvas.width and paste_y < canvas.height)
TilePasted(t) ==
    /\ t.px + t.w > 0
    /\ t.py + t.h > 0
    /\ t.px < CanvasSide
    /\ t.py < CanvasSide

\* CurvedText(value, radius=, start_angle=, font=, flip=)
CvNew ==
    /\ \E v \in CurvedValues, f \in Fonts, fl \in BOOLEAN,
          a \in StartAngles, r \in Radii :
          cv' = [CvInit EXCEPT !.made = TRUE, !.value = v, !.font = f, !.flip = fl,
                               !.start_angle = a, !.radius = r]
    /\ cv' # cv
    /\ UNCHANGED <<ViewVars, fc, sk, kp, api>>

\* draw(canvas, drawer) on a fresh canvas.  tl: drawer.textlength works;
\* fault: the glyph whose Image.new/text/rotate/paste raises (0: none);
\* bx, by, step: where the rotated tiles fall; the glyphs whose tile passes
\* the test are pasted, and the angle advances for every glyph (Layout).
CvDraw ==
    /\ cv.made
    /\ ~cv.called
    /\ \E tl \in BOOLEAN, fault \in 0..2 :
          IF CurvedSkips(cv.value, cv.font)
          THEN cv' = [cv EXCEPT !.called = TRUE]
          ELSE LET text == CurvedTextOf(cv.value)
                   all == CurvedLayout(text, cv.font, cv.flip, cv.start_angle,
                                       cv.radius, tl)
                   bad == fault \in 1..Len(all)
                   done == IF bad THEN SubSeq(all, 1, fault - 1) ELSE all
               IN \E bx \in Positions, by \in Positions, step \in TileSteps :
                     LET tiles == TilesFrom(bx, by, step, Len(done))
                     IN cv' = [cv EXCEPT !.called = TRUE, !.raised = bad, !.tl = tl,
                                         !.placed = done, !.tiles = tiles,
                                         !.pasted = {i \in 1..Len(done) :
                                                       TilePasted(tiles[i])}]
    /\ UNCHANGED <<ViewVars, fc, sk, kp, api>>

InitCurved == Init /\ fps = 0

NextCurved == CvNew \/ CvDraw

SpecCurved == InitCurved /\ [][NextCurved]_vars

----------------------------------------------------------------------------
(* Text.draw on a widget built with any image, value, wrap and max_length.
   textwrap.TextWrapper(width=max_length, replace_whitespace=False) is
   modelled for texts without tabs and hyphens. *)

\* a whitespace character of textwrap
IsSpace(c) == c \in {" ", NL}

\* chunk.strip() == ''
IsBlankChunk(ch) == \A i \in 1..Len(ch) : IsSpace(ch[i])

\* TextWrapper._split: the maximal runs of whitespace and of other characters
RECURSIVE Chunks(_)
Chunks(s) ==
    IF s = <<>> THEN <<>>
    ELSE LET rest == Chunks(Tail(s))
         IN IF rest # <<>> /\ IsSpace(rest[1][1]) = IsSpace(Head(s))
            THEN <<(<<Head(s)>> \o rest[1])>> \o Tail(rest)
            ELSE <<(<<Head(s)>>)>> \o rest

\* while chunks: if cur_len + len(chunks[-1]) <= width: take it
RECURSIVE Fill(_, _, _, _)
Fill(chunks, line, cur_len, width) ==
    IF chunks # <<>> /\ cur_len + Len(chunks[1]) <= width
    THEN Fill(Tail(chunks), Append(line, chunks[1]), cur_len + Len(chunks[1]), width)
    ELSE [line |-> line, rest |-> chunks, len |-> cur_len]

\* ''.join(cur_line)
RECURSIVE Concat(_)
Concat(ss) == IF ss = <<>> THEN <<>> ELSE Head(ss) \o Concat(Tail(ss))

\* TextWrapper._wrap_chunks for width > 0: whitespace is dropped at the start
\* of every line but the first and at the end of every line, a chunk longer
\* than the width is broken
RECURSIVE WrapChunks(_, _, _)
WrapChunks(chunks, width, lines) ==
    IF chunks = <<>> THEN lines
    ELSE LET c0 == IF IsBlankChunk(chunks[1]) /\ lines # <<>> THEN Tail(chunks)
                   ELSE chunks
             f == Fill(c0, <<>>, 0, width)
             long == f.rest # <<>> /\ Len(f.rest[1]) > width
             space_left == width - f.len
             line1 == IF long THEN Append(f.line, SubSeq(f.rest[1], 1, space_left))
                      ELSE f.line
             rest1 == IF long
                      THEN <<SubSeq(f.rest[1], space_left + 1, Len(f.rest[1]))>>
                           \o Tail(f.rest)
                      ELSE f.rest
             line2 == IF line1 # <<>> /\ IsBlankChunk(line1[Len(line1)])
                      THEN SubSeq(line1, 1, Len(line1) - 1) ELSE line1
         IN WrapChunks(rest1, width,
                       IF line2 # <<>> THEN Append(lines, Concat(line2)) ELSE lines)

\* '\n'.join(lines)
RECURSIVE JoinNl(_)
JoinNl(lines) ==
    IF lines = <<>> THEN <<>>
    ELSE IF Len(lines) = 1 THEN lines[1]
    ELSE lines[1] \o <<NL>> \o JoinNl(Tail(lines))

\* '\n'.join(self.wrapper.wrap(self.value))
Wrap(value, width) == JoinNl(WrapChunks(Chunks(value), width, <<>>))

\* Text.draw, painting part with the wrap option: on the text path a widget
\* with wrap set draws the wrapped value; TextWrapper.wrap raises ValueError
\* for a width that is not positive
TextDrawn(image, value, wrap, max_length, pasteOk) ==
    LET r == TextRender(image, value, pasteOk)
    IN IF r.kind = "text" /\ wrap
       THEN IF max_length <= 0 THEN [kind |-> "raise", what |-> None]
            ELSE [kind |-> "text", what |-> Wrap(value, max_length)]
       ELSE r

\* the width of the wrapped lines
WrapWidth == 3

\* max_length: the constructor's default, or a width
MaxLengths == {0, WrapWidth}

DrawValues ==
    {None, <<>>, <<" ">>, <<"a", "b">>, <<"a", "b", " ", "c", "d">>,
     <<"a", "b", "c", "d", "e", "f">>, <<" ", "a", "b">>, <<"a", " ", " ", "b">>,
     <<"a", "b", "c", "d", " ", "e">>, <<"a", NL, "b">>, <<"a", " ", " ", "b", "c", "d", "e">>}

DrawImages == {None, <<"f1">>}

\* Text(value, wrap=, max_length=, image=).draw(canvas, drawer)
TextDrawAny ==
    /\ \E im \in DrawImages, v \in DrawValues, w \in BOOLEAN, ml \in MaxLengths,
          pasteOk \in BOOLEAN :
          textOp' = [NoOp EXCEPT !.op = "draw_any", !.image = im, !.value = v,
                                 !.wrap = w, !.max_length = ml, !.paste = pasteOk,
                                 !.shown = TextDrawn(im, v, w, ml, pasteOk)]
    /\ UNCHANGED <<TextFrame, faceFrames, faceIndex, faceImage, kdraws, state, dirty,
                   clean, nameHist, seen>>

NextDraw == TextDrawAny

SpecDraw == InitText /\ [][NextDraw]_vars

----------------------------------------------------------------------------
(* The display sinks: PygameDisplay, SPIDisplay, Waveshare1inch28.
   sk.handle: the attribute render needs (screen, _display) is set;
   sk.sent: the last render handed a picture to the device or window;
   sk.raised: the last render raised to its caller. *)

MaxRenders == 2

SinkKinds == {"pygame", "spi", "waveshare"}

\* the calls of initialize() that can raise, in order
InitSteps(kind) ==
    CASE kind = "pygame" -> <<"init", "set_mode", "fill">>
      [] kind = "spi" -> <<>>
      [] kind = "waveshare" -> <<"find", "import", "LCD_1inch28", "Init", "clear", "bl_DutyCycle">>

\* whether initialize() leaves the handle assigned when step failedAt raised
\* (0: none did): self.screen = set_mode(..), self._display = LCD_1inch28();
\* SPIDisplay never assigns self.device
HandleSetAfter(kind, failedAt) ==
    CASE kind = "pygame" -> failedAt = 0 \/ failedAt > 2
      [] kind = "spi" -> FALSE
      [] kind = "waveshare" -> failedAt = 0 \/ failedAt > 3

RenderFaults == {"none", "before", "send"}
Canvases == {None, <<"image">>}

\* render(canvas): what the call does.  fault "before": convert, resize,
\* rotate or tobytes raises; "send": the device call itself raises.
SkRenderResult(kind, handle, cvs, fault) ==
    CASE kind = "pygame" ->
           IF cvs = None THEN [raised |-> FALSE, sent |-> FALSE]
           ELSE \* try: ... self.screen.blit(..) ... except Exception: log
                [raised |-> FALSE, sent |-> fault # "before" /\ handle]
      [] kind = "spi" ->
           \* nothing is sent: the hardware call is not implemented
           [raised |-> FALSE, sent |-> FALSE]
      [] kind = "waveshare" ->
           IF ~handle THEN [raised |-> FALSE, sent |-> FALSE]
           ELSE \* try: canvas.mode ... self._display.ShowImage(canvas)
                [raised |-> FALSE, sent |-> cvs # None /\ fault # "before"]

\* the constructor
SkNew ==
    /\ \E k \in SinkKinds : sk' = [SkInit EXCEPT !.made = TRUE, !.kind = k]
    /\ sk' # sk
    /\ UNCHANGED <<ViewVars, fc, cv, kp, api>>

\* initialize(), called once, with the step that raises (0: none)
SkInitialize ==
    /\ sk.made
    /\ sk.init = "none"
    /\ sk.renders = 0
    /\ \E failedAt \in 0..Len(InitSteps(sk.kind)) :
          sk' = [sk EXCEPT !.init = IF failedAt = 0 THEN "ok" ELSE "failed",
                           !.failedAt = failedAt,
                           !.handle = HandleSetAfter(sk.kind, failedAt)]
    /\ UNCHANGED <<ViewVars, fc, cv, kp, api>>

\* render(canvas)
SkRender ==
    /\ sk.made
    /\ sk.renders < MaxRenders
    /\ \E cvs \in Canvases, fault \in RenderFaults :
          LET r == SkRenderResult(sk.kind, sk.handle, cvs, fault)
          IN sk' = [sk EXCEPT !.renders = @ + 1, !.canvas = cvs, !.fault = fault,
                              !.raised = r.raised, !.sent = r.sent]
    /\ UNCHANGED <<ViewVars, fc, cv, kp, api>>

InitSink == Init /\ fps = 0

NextSink == SkNew \/ SkInitialize \/ SkRender

SpecSink == InitSink /\ [][NextSink]_vars

----------------------------------------------------------------------------
(* View.on_render and the dispatch loop of update(), one callback per step.
   api.frame numbers the canvases, api.calls logs (callback, canvas) of the
   current dispatch, api.first is the order of first registration, api.again
   tells that a registered callback was registered again. *)

MaxDispatch == 2

Callbacks == {"display", "second", "third"}

\* what the methods exercised alone leave unchanged
CoreVars ==
    <<fps, ignore_changes, frozen, lock, canvas, sinks, pc, force, new_data, ret, changes,
      idx, name, frozenAtCall, faceFrames, faceIndex, loaded, upc, handed, trace, kdraws,
      textOp, fc, cv, sk, kp>>

StateVars == <<state, dirty, faceImage, clean, nameHist, seen, order>>

\* faulty variant: the callback is appended on every call
OnRenderAlways(cb) == render_cbs' = Append(render_cbs, cb)

\* if cb not in self._render_cbs: self._render_cbs.append(cb)
OnRender(cb) ==
    render_cbs' = IF IsCallback(cb) THEN render_cbs ELSE Append(render_cbs, cb)

\* on_render(cb), also while a dispatch is under way in another thread
ApiOnRender ==
    /\ \E cb \in Callbacks :
         /\ OnRender(cb)
         /\ api' = [api EXCEPT !.op = "on_render",
                                !.again = @ \/ IsCallback(cb),
                                !.first = IF \E j \in 1..Len(@) : @[j] = cb
                                          THEN @ ELSE Append(@, cb)]
    /\ UNCHANGED <<CoreVars, StateVars>>

\* an executed frame reaches `for cb in self._render_cbs` with its canvas
ApiDispatchStart ==
    /\ api.i = 0
    /\ api.frame < MaxDispatch
    /\ api' = [api EXCEPT !.op = "dispatch", !.i = 1, !.frame = @ + 1, !.calls = <<>>]
    /\ UNCHANGED <<CoreVars, StateVars, render_cbs>>

\* cb(self._canvas) for the next element of the list
ApiDispatchStep ==
    /\ api.i \in 1..Len(render_cbs)
    /\ api' = [api EXCEPT !.i = @ + 1,
                          !.calls = Append(@, [cb |-> render_cbs[api.i],
                                               canvas |-> api.frame])]
    /\ UNCHANGED <<CoreVars, StateVars, render_cbs>>

\* the list is exhausted
ApiDispatchEnd ==
    /\ api.i > Len(render_cbs)
    /\ api' = [api EXCEPT !.op = "dispatched", !.i = 0]
    /\ UNCHANGED <<CoreVars, StateVars, render_cbs>>

----------------------------------------------------------------------------
(* The View with its periodic task and the agent's set() and update() calls,
   observed: `seen' records what each key held since the lock was taken *)

InitFresh == InitObserved(SeenOn)

NextFresh ==
    \/ \E t \in Threads : Update(t)
    \/ TickGet
    \/ TickSet
    \/ AgentSet
    \/ AgentUpdate

SpecFresh == InitFresh /\ [][NextFresh]_vars

----------------------------------------------------------------------------
(* A View with the memtemp plugin loaded and two registered render callbacks *)

\* State.add_element(key, widget): the key is inserted after the existing ones
AddKey(ord, key) == Append(ord, key)

\* State.remove_element(key): the key leaves the iteration order
RemoveKey(ord, key) == SelectSeq(ord, LAMBDA k : k # key)

\* the keyed widgets without key
WithoutKey(st, key) == [k \in DOMAIN st \ {key} |-> st[k]]

\* View.__init__'s state argument: an initial value for the name widget
ExtName == <<"p","w","n","a","g","o","t","c","h","i","-","2",">">>

\* the widgets whose draw is made to fail
FailingWidgets == {"face", "memtemp"}

\* View.__init__ with a state argument, and MemTemp.on_ui_setup run by its
\* plugins.on('ui_setup', self)
InitWith(cbs) ==
    /\ order = AddKey(PaintOrder, "memtemp")
    /\ state = [InitialState EXCEPT !.name = ExtName] @@ ("memtemp" :> MemInit)
    /\ render_cbs = cbs
    /\ sinks = [web |-> NoCanvas, display |-> NoCanvas, second |-> NoCanvas]
    /\ loaded = TRUE
    /\ upc = "idle"
    /\ faceFrames = <<>>
    /\ faceIndex = 0
    /\ handed = FALSE
    /\ trace = [t \in Threads |-> <<>>]
    /\ kdraws = 0
    /\ textOp = NoOp
    /\ UnitInit
    /\ fps = 1
    /\ ignore_changes = IgnoreChanges(fps)
    /\ dirty = {"name"}
    /\ faceImage = None
    /\ frozen = FALSE
    /\ lock = NoThread
    /\ canvas = NoCanvas
    /\ pc = [t \in Threads |-> IF t = "agent" THEN "idle" ELSE "tick"]
    /\ force = [t \in Threads |-> FALSE]
    /\ new_data = [t \in Threads |-> <<>>]
    /\ ret = [t \in Threads |-> IF t = "agent" THEN "idle" ELSE "tick"]
    /\ changes = [t \in Threads |-> {}]
    /\ idx = [t \in Threads |-> 0]
    /\ name = None
    /\ clean = FALSE
    /\ frozenAtCall = [t \in Threads |-> FALSE]
    /\ nameHist = <<>>
    /\ seen = SeenOff

\* the display's callback and a second one registered by on_render
InitExt == InitWith(<<"display", "second">>)

\* on_manual_mode: self.set('epoch', "%04d" % last_session.epochs)
Epoch == <<"0","0","0","7">>

\* a set() from the foreground on a key the View never registered
AgentSetExt ==
    /\ pc["agent"] = "idle"
    /\ ViewSet("epoch", Epoch, FALSE)
    /\ HistSet("agent", "epoch")
    /\ UNCHANGED <<extVars, textVars, histVars>>
    /\ UNCHANGED <<fps, ignore_changes, frozen, lock, canvas, sinks, pc, force,
                   new_data, ret, changes, idx, name, frozenAtCall>>

\* the new_data arguments: none, or a key the View never registered
ExtPatches == {<<>>, <<<<"epoch", Epoch>>>>}

\* an update() from the foreground
AgentUpdateExt ==
    /\ pc["agent"] = "idle"
    /\ \E f \in BOOLEAN, nd \in ExtPatches : UpdateCall("agent", f, nd, "idle")
    /\ UNCHANGED <<extVars, textVars, histVars>>
    /\ UNCHANGED <<fps, ignore_changes, state, dirty, faceImage, frozen, lock, canvas,
                   sinks, changes, idx, name, clean, nameHist, seen>>

\* faulty variant: the exception leaves update() with the lock still held
UnwindLeak(t) ==
    /\ lock' = lock
    /\ pc' = [pc EXCEPT ![t] = ret[t]]
    /\ force' = [force EXCEPT ![t] = FALSE]
    /\ changes' = [changes EXCEPT ![t] = {}]
    /\ idx' = [idx EXCEPT ![t] = 0]
    /\ frozenAtCall' = [frozenAtCall EXCEPT ![t] = FALSE]
    /\ trace' = [trace EXCEPT ![t] = <<>>]

\* faulty variant: an exception that reaches the periodic task ends it
UnwindEndsTask(t) ==
    /\ lock' = IF lock = t THEN NoThread ELSE lock
    /\ pc' = [pc EXCEPT ![t] = IF t = "ticker" THEN "off" ELSE ret[t]]
    /\ force' = [force EXCEPT ![t] = FALSE]
    /\ changes' = [changes EXCEPT ![t] = {}]
    /\ idx' = [idx EXCEPT ![t] = 0]
    /\ frozenAtCall' = [frozenAtCall EXCEPT ![t] = FALSE]
    /\ trace' = [trace EXCEPT ![t] = <<>>]

\* an exception inside the with block: __exit__ releases the lock and the
\* exception leaves update(); the statements after the failing one are skipped
Unwind(t) ==
    /\ lock' = IF lock = t THEN NoThread ELSE lock
    /\ pc' = [pc EXCEPT ![t] = ret[t]]
    /\ force' = [force EXCEPT ![t] = FALSE]
    /\ changes' = [changes EXCEPT ![t] = {}]
    /\ idx' = [idx EXCEPT ![t] = 0]
    /\ frozenAtCall' = [frozenAtCall EXCEPT ![t] = FALSE]
    /\ trace' = [trace EXCEPT ![t] = <<>>]

\* plugins.on('ui_update', self) with a failing on_ui_update: the hook has no
\* effect and the frame goes on
HookFails(t) ==
    /\ pc[t] = "hook"
    /\ loaded
    /\ idx' = [idx EXCEPT ![t] = 0]
    /\ Log(t, "hook")
    /\ pc' = [pc EXCEPT ![t] = "draw"]
    /\ UNCHANGED <<extVars, textVars, handed>>
    /\ UNCHANGED <<fps, ignore_changes, state, dirty, faceImage, frozen, lock, canvas,
                   sinks, force, new_data, ret, changes, name, clean, frozenAtCall,
                   nameHist, seen>>

\* faulty variant: the dirty markers are cleared although the frame is aborted
DrawRaisesReset(t) ==
    /\ pc[t] = "draw"
    /\ idx[t] < Len(order)
    /\ NextWidget(t) \in FailingWidgets
    /\ Unwind(t)
    /\ StateReset
    /\ UNCHANGED <<extVars, textVars, handed>>
    /\ UNCHANGED <<fps, ignore_changes, state, faceImage, frozen, canvas, sinks,
                   new_data, ret, name, clean, nameHist, seen>>

\* lv.draw(self._canvas, drawer) raises for the next widget
DrawRaises(t) ==
    /\ pc[t] = "draw"
    /\ idx[t] < Len(order)
    /\ NextWidget(t) \in FailingWidgets
    /\ Unwind(t)
    /\ UNCHANGED <<extVars, textVars, handed>>
    /\ UNCHANGED <<fps, ignore_changes, state, dirty, faceImage, frozen, canvas, sinks,
                   new_data, ret, name, clean, nameHist, seen>>

\* cb(self._canvas) raises for the i-th callback: the earlier ones got the frame
RenderRaises(t) ==
    /\ pc[t] = "render"
    /\ \E i \in 1..Len(render_cbs) :
         sinks' = [s \in DOMAIN sinks |->
                     IF \E j \in 1..(i - 1) : render_cbs[j] = s
                     THEN canvas ELSE sinks[s]]
    /\ handed' = TRUE
    /\ Unwind(t)
    /\ UNCHANGED <<extVars, textVars>>
    /\ UNCHANGED <<fps, ignore_changes, state, dirty, faceImage, frozen, canvas,
                   new_data, ret, name, clean, nameHist, seen>>

UnloadVars ==
    <<fps, ignore_changes, faceImage, frozen, canvas, sinks, pc, force, new_data, ret,
      changes, idx, name, clean, frozenAtCall, nameHist, seen, render_cbs, kdraws, textOp,
      unitVars,
      faceFrames, faceIndex, handed, trace>>

\* plugins unload the extension: on_unload(ui) is called
UnloadCall ==
    /\ upc = "idle"
    /\ upc' = "acquire"
    /\ UNCHANGED <<UnloadVars, lock, state, dirty, order, loaded>>

\* faulty variant: on_unload does not wait for the lock
UnloadAcquireNoLock ==
    /\ upc = "acquire"
    /\ lock' = lock
    /\ upc' = "remove"
    /\ UNCHANGED <<UnloadVars, state, dirty, order, loaded>>

\* MemTemp.on_unload: with ui._lock
UnloadAcquire ==
    /\ upc = "acquire"
    /\ lock = NoThread
    /\ lock' = "ext"
    /\ upc' = "remove"
    /\ UNCHANGED <<UnloadVars, state, dirty, order, loaded>>

\* MemTemp.on_unload: ui.remove_element('memtemp')
UnloadRemove ==
    /\ upc = "remove"
    /\ order' = RemoveKey(order, "memtemp")
    /\ state' = WithoutKey(state, "memtemp")
    /\ upc' = "release"
    /\ UNCHANGED <<UnloadVars, lock, dirty, loaded>>

\* MemTemp.on_unload: the with block ends
UnloadRelease ==
    /\ upc = "release"
    /\ lock' = IF lock = "ext" THEN NoThread ELSE lock
    /\ upc' = "unloaded"
    /\ UNCHANGED <<UnloadVars, state, dirty, order, loaded>>

\* the plugin leaves the loaded plugins: no further on_ui_update
UnloadDone ==
    /\ upc = "unloaded"
    /\ loaded' = FALSE
    /\ upc' = "off"
    /\ UNCHANGED <<UnloadVars, lock, state, dirty, order>>

Unload ==
    \/ UnloadCall
    \/ UnloadAcquire
    \/ UnloadRemove
    \/ UnloadRelease
    \/ UnloadDone

Faults(t) ==
    \/ HookFails(t)
    \/ DrawRaises(t)
    \/ RenderRaises(t)

NextExt ==
    \/ TickGet
    \/ TickSet
    \/ AgentSetExt
    \/ AgentUpdateExt
    \/ \E t \in Threads : Update(t)
    \/ \E t \in Threads : Faults(t)
    \/ Unload

SpecExt == InitExt /\ [][NextExt]_vars

\* a thread inside update() or on_unload keeps running, its calls return, and a
\* thread blocked on the lock is not passed over forever
FairExt ==
    /\ \A t \in Threads : WF_vars(Update(t)) /\ SF_vars(Acquire(t))
    /\ WF_vars(UnloadRemove \/ UnloadRelease \/ UnloadDone)
    /\ SF_vars(UnloadAcquire)

\* the View with the display's callback only, and no stray set()
InitLock == InitWith(<<"display">>)

NextLock ==
    \/ TickGet
    \/ TickSet
    \/ AgentUpdateExt
    \/ \E t \in Threads : Update(t)
    \/ \E t \in Threads : Faults(t)
    \/ Unload

SpecLock == InitLock /\ [][NextLock]_vars /\ FairExt

\* on_render and the dispatch loop alone, from a View with no callback
\* self._render_cbs = []
InitSinks == InitWith(<<>>)

NextSinks == ApiOnRender \/ ApiDispatchStart \/ ApiDispatchStep \/ ApiDispatchEnd

SpecSinks == InitSinks /\ [][NextSinks]_vars

----------------------------------------------------------------------------
(* View.has_element, add_element and remove_element on the State.
   api.key is the key of the last call, api.result what has_element returned. *)

\* the keys extensions add and remove
ElemKeys == {"memtemp", "gps", "clock"}

\* a Python value taken as a condition
Truthy(v) == v \notin {None, <<"False">>, <<>>}

PyBool(b) == IF b THEN <<"True">> ELSE <<"False">>

\* State.has_element(key)
StateHasElement(key) == PyBool(key \in DOMAIN state)

\* has_element(key): self._state.has_element(key), whose value is dropped;
\* a def without return yields None
ViewHasElement(key) == IF Truthy(StateHasElement(key)) THEN None ELSE None

\* add_element(key, elem): State.add_element fails for a key already present
ApiAddElement ==
    /\ \E key \in ElemKeys, elem \in {MemInit, MemData} :
         /\ IF key \in DOMAIN state
            THEN UNCHANGED <<state, order>>
            ELSE /\ state' = state @@ (key :> elem)
                 /\ order' = AddKey(order, key)
         /\ api' = [api EXCEPT !.op = "add_element", !.key = key, !.result = None]
    /\ UNCHANGED <<CoreVars, dirty, faceImage, clean, nameHist, seen, render_cbs>>

\* remove_element(key)
ApiRemoveElement ==
    /\ \E key \in ElemKeys :
         /\ state' = WithoutKey(state, key)
         /\ order' = RemoveKey(order, key)
         /\ api' = [api EXCEPT !.op = "remove_element", !.key = key, !.result = None]
    /\ UNCHANGED <<CoreVars, dirty, faceImage, clean, nameHist, seen, render_cbs>>

\* has_element(key), for an extension's key or a widget of the View
ApiHasElement ==
    /\ \E key \in ElemKeys \cup {"face"} :
         api' = [api EXCEPT !.op = "has_element", !.key = key,
                            !.result = ViewHasElement(key)]
    /\ UNCHANGED <<CoreVars, StateVars, render_cbs>>

InitElem == InitWith(<<"display">>)

NextElem == ApiAddElement \/ ApiRemoveElement \/ ApiHasElement

SpecElem == InitElem /\ [][NextElem]_vars

----------------------------------------------------------------------------
(* View.set_closest_peer(peer, num_total), called by the agent.
   api.peer and api.total are the arguments of the last call, api.updates the
   update() calls it has made. *)

\* the bar characters of the signal meter
Filled == "<filled bar>"
Empty == "<empty bar>"

\* '%d' % n
RECURSIVE Dec(_)
Dec(n) ==
    IF n < 0 THEN <<"-">> \o Dec(-n)
    ELSE IF n < 10 THEN <<SubSeq(<<"0","1","2","3","4","5","6","7","8","9">>, n + 1, n + 1)[1]>>
    ELSE Dec(n \div 10) \o Dec(n % 10)

\* faulty variant: the thresholds are exclusive
NumBarsExclusive(rssi) ==
    IF rssi > -67 THEN 4
    ELSE IF rssi > -70 THEN 3
    ELSE IF rssi > -80 THEN 2
    ELSE 1

\* if peer.rssi >= -67: 4 elif >= -70: 3 elif >= -80: 2 else: 1
NumBars(rssi) ==
    IF rssi >= -67 THEN 4
    ELSE IF rssi >= -70 THEN 3
    ELSE IF rssi >= -80 THEN 2
    ELSE 1

\* c * n
Repeat(c, n) == [i \in 1..n |-> c]

OfOver == <<" ","o","f"," ","o","v","e","r"," ","9","0","0","0">>
Of == <<" ","o","f"," ">>

\* the friend_name of a peer
FriendName(peer, num_total) ==
    Repeat(Filled, NumBars(peer.rssi)) \o Repeat(Empty, 4 - NumBars(peer.rssi))
    \o <<" ">> \o peer.name \o <<" ">> \o Dec(peer.run)
    \o <<" ", "(">> \o Dec(peer.total) \o <<")">>
    \o (IF num_total > 1
        THEN IF num_total > 9000 THEN OfOver ELSE Of \o Dec(num_total)
        ELSE <<>>)

NoPeer ==
    [present |-> FALSE, rssi |-> 0, name |-> <<>>, run |-> 0, total |-> 0, face |-> None]

\* peers at and next to the thresholds of the signal meter
Peers ==
    {[present |-> TRUE, rssi |-> r, name |-> <<"b","o","b">>, run |-> 3, total |-> 12,
      face |-> AWAKE] : r \in {-66, -67, -68, -70, -71, -80, -81}}

\* num_total at and next to the limits of the suffix
Totals == {0, 1, 2, 9000, 9001}

InPeerCall == {"peer_face", "peer_name", "peer_update"}

\* set_closest_peer(peer, num_total) is called
PeerCall ==
    /\ pc["agent"] = "idle"
    /\ \E p \in Peers \cup {NoPeer}, n \in Totals :
         api' = [api EXCEPT !.op = "set_closest_peer", !.peer = p, !.total = n,
                            !.updates = 0]
    /\ pc' = [pc EXCEPT !["agent"] = "peer_face"]
    /\ UNCHANGED <<fps, ignore_changes, frozen, lock, canvas, sinks, force, new_data, ret,
                   changes, idx, name, frozenAtCall, faceFrames, faceIndex, loaded, upc,
                   handed, trace, kdraws, textOp, fc, cv, sk, kp, StateVars, render_cbs>>

\* self.set('friend_face', None), or self.set('friend_face', peer.face())
PeerSetFace ==
    /\ pc["agent"] = "peer_face"
    /\ ViewSet("friend_face", IF api.peer.present THEN api.peer.face ELSE None, FALSE)
    /\ HistSet("agent", "friend_face")
    /\ pc' = [pc EXCEPT !["agent"] = "peer_name"]
    /\ UNCHANGED <<fps, ignore_changes, frozen, lock, canvas, sinks, force, new_data, ret,
                   changes, idx, name, frozenAtCall, faceFrames, faceIndex, loaded, upc,
                   handed, trace, kdraws, textOp, unitVars, order, render_cbs>>

\* self.set('friend_name', None), or self.set('friend_name', name)
PeerSetName ==
    /\ pc["agent"] = "peer_name"
    /\ ViewSet("friend_name",
               IF api.peer.present THEN FriendName(api.peer, api.total) ELSE None, FALSE)
    /\ HistSet("agent", "friend_name")
    /\ pc' = [pc EXCEPT !["agent"] = "peer_update"]
    /\ UNCHANGED <<fps, ignore_changes, frozen, lock, canvas, sinks, force, new_data, ret,
                   changes, idx, name, frozenAtCall, faceFrames, faceIndex, loaded, upc,
                   handed, trace, kdraws, textOp, unitVars, order, render_cbs>>

\* self.update(), the last statement of both branches
PeerUpdate ==
    /\ pc["agent"] = "peer_update"
    /\ UpdateCall("agent", FALSE, <<>>, "idle")
    /\ api' = [api EXCEPT !.updates = @ + 1]
    /\ UNCHANGED <<fps, ignore_changes, frozen, lock, canvas, sinks, changes, idx, name,
                   faceFrames, faceIndex, loaded, upc, handed, trace, kdraws, textOp,
                   fc, cv, sk, kp, StateVars, render_cbs>>

NextPeer ==
    \/ PeerCall
    \/ PeerSetFace
    \/ PeerSetName
    \/ PeerUpdate
    \/ AgentUpdateExt
    \/ \E t \in Threads : Update(t)

SpecPeer == InitLock /\ [][NextPeer]_vars

----------------------------------------------------------------------------
(* identity.KeyPair.__init__(path, view).
   kp.priv, kp.pub: the key files (missing, good, corrupt); kp.attempt: the
   loop variable; kp.log: the generations, loads and calls on the view so far;
   kp.pc: the statement reached, "done" after return, "raised" after an
   exception left the constructor. *)

max_retries == 3

FileStates == {"missing", "good", "corrupt"}

\* what `pwngrid -generate -keys` leaves when it returns 0 and id_rsa exists
PwngridKeys ==
    {[priv |-> "good", pub |-> "good"], [priv |-> "corrupt", pub |-> "good"],
     [priv |-> "good", pub |-> "missing"]}

\* _generate_keys_native writes both files
NativeKeys == [priv |-> "good", pub |-> "good"]

KpLog(e) == Append(kp.log, e)

KpRest == <<ViewVars, fc, cv, sk, api>>

\* KeyPair(path, view) on a directory with any key files
KpNew ==
    /\ kp.pc = "none"
    /\ \E a \in FileStates, b \in FileStates :
         kp' = [kp EXCEPT !.pc = "check", !.priv = a, !.pub = b]
    /\ UNCHANGED KpRest

\* for attempt in range(max_retries): if a key file is missing, generate
KpCheck ==
    /\ kp.pc = "check"
    /\ kp' = [kp EXCEPT !.pc =
                 IF kp.attempt >= max_retries THEN "fallback_generate"
                 ELSE IF kp.priv = "missing" \/ kp.pub = "missing" THEN "notify"
                 ELSE "load"]
    /\ UNCHANGED KpRest

\* self._view.on_keys_generation(), outside the try: an exception of the
\* view leaves the constructor
KpNotify ==
    /\ kp.pc = "notify"
    /\ \E raises \in BOOLEAN :
         kp' = [kp EXCEPT !.pc = IF raises THEN "raised" ELSE "generate",
                          !.log = KpLog("on_keys_generation")]
    /\ UNCHANGED KpRest

\* pwngrid if installed, the native generation if it is not or has failed
KpGenerate ==
    /\ kp.pc = "generate"
    /\ \E keys \in PwngridKeys \cup {NativeKeys} :
         kp' = [kp EXCEPT !.pc = "load", !.priv = keys.priv, !.pub = keys.pub,
                          !.log = KpLog("generate")]
    /\ UNCHANGED KpRest

\* try: read and import both keys, write the fingerprint file (fpOk)
KpLoad ==
    /\ kp.pc = "load"
    /\ \E fpOk \in BOOLEAN :
         IF kp.priv = "good" /\ kp.pub = "good" /\ fpOk
         THEN kp' = [kp EXCEPT !.pc = "starting", !.log = KpLog("load_ok")]
         ELSE kp' = [kp EXCEPT !.pc = "remove", !.log = KpLog("load_failed")]
    /\ UNCHANGED KpRest

\* self._view.on_starting(); return -- still inside the try
KpStarting ==
    /\ kp.pc = "starting"
    /\ \E raises \in BOOLEAN :
         kp' = [kp EXCEPT !.pc = IF raises THEN "remove" ELSE "done",
                          !.log = KpLog("on_starting")]
    /\ UNCHANGED KpRest

\* except Exception: os.remove(priv), os.remove(pub), each in its own try
KpRemove ==
    /\ kp.pc = "remove"
    /\ kp' = [kp EXCEPT !.pc = "check", !.priv = "missing", !.pub = "missing",
                        !.attempt = @ + 1, !.log = KpLog("remove")]
    /\ UNCHANGED KpRest

\* after the loop: self._generate_keys_native()
KpFallbackGenerate ==
    /\ kp.pc = "fallback_generate"
    /\ kp' = [kp EXCEPT !.pc = "fallback_load", !.priv = NativeKeys.priv,
                        !.pub = NativeKeys.pub, !.log = KpLog("generate")]
    /\ UNCHANGED KpRest

\* the fallback's try: load, write the fingerprint; except: raise
KpFallbackLoad ==
    /\ kp.pc = "fallback_load"
    /\ \E fpOk \in BOOLEAN :
         IF kp.priv = "good" /\ kp.pub = "good" /\ fpOk
         THEN kp' = [kp EXCEPT !.pc = "fallback_starting", !.log = KpLog("load_ok")]
         ELSE kp' = [kp EXCEPT !.pc = "raised", !.log = KpLog("load_failed")]
    /\ UNCHANGED KpRest

\* the fallback's self._view.on_starting(), inside its try: except: raise
KpFallbackStarting ==
    /\ kp.pc = "fallback_starting"
    /\ \E raises \in BOOLEAN :
         kp' = [kp EXCEPT !.pc = IF raises THEN "raised" ELSE "done",
                          !.log = KpLog("on_starting")]
    /\ UNCHANGED KpRest

InitKeys == Init /\ fps = 0

NextKeys ==
    \/ KpNew
    \/ KpCheck
    \/ KpNotify
    \/ KpGenerate
    \/ KpLoad
    \/ KpStarting
    \/ KpRemove
    \/ KpFallbackGenerate
    \/ KpFallbackLoad
    \/ KpFallbackStarting

SpecKeys == InitKeys /\ [][NextKeys]_vars

----------------------------------------------------------------------------
(* The periodic task with failing set(), draws and callbacks, and on_shutdown *)

\* self.set('name', ...) raises in the periodic task, before or after the
\* value is stored: the except clause logs, and the loop goes on to the sleep
TickSetRaises ==
    /\ pc["ticker"] = "tick_set"
    /\ \/ ViewSet("name", ToggleName(name), FALSE) /\ HistSet("ticker", "name")
       \/ UNCHANGED <<state, dirty, faceImage, clean, nameHist, seen>>
    /\ pc' = [pc EXCEPT !["ticker"] = "tick"]
    /\ name' = None
    /\ UNCHANGED <<extVars, textVars, histVars>>
    /\ UNCHANGED <<fps, ignore_changes, frozen, lock, canvas, sinks, force, new_data,
                   ret, changes, idx, frozenAtCall>>

NextTick ==
    \/ TickGet
    \/ TickSet
    \/ TickSetRaises
    \/ AgentUpdateExt
    \/ ShutdownFace
    \/ ShutdownStatus
    \/ ShutdownFreeze
    \/ \E t \in Threads : Update(t)
    \/ \E t \in Threads : Faults(t)

\* threads inside update() keep running, and a thread blocked on the lock is
\* not passed over forever; the periodic task's sleep ends
FairTick ==
    /\ \A t \in Threads : WF_vars(Update(t)) /\ SF_vars(Acquire(t))
    /\ WF_vars(TickGet)
    /\ WF_vars(TickSet \/ TickSetRaises)

SpecTick == InitLock /\ [][NextTick]_vars /\ FairTick

----------------------------------------------------------------------------
(* Vocabulary of the properties *)

\* positions inside update()'s with block
Critical == {"frozen", "changes", "alloc", "hook", "draw", "web", "render", "reset",
             "release"}

\* positions of an executing frame, up to and including State.reset()
InFrame == {"alloc", "hook", "draw", "web", "render", "reset"}

\* thread t takes a step
Steps(t) == pc'[t] # pc[t] \/ idx'[t] # idx[t]

\* the value painted for key on canvas c
Shown(c, key) ==
    LET i == CHOOSE j \in 1..Len(c.px) : c.px[j].key = key IN c.px[i].value

\* an update() that returned early without a frame, about to leave the with block
Skipped(t) == pc[t] = "release" /\ idx[t] = 0

----------------------------------------------------------------------------
(* Properties *)

\* C1: on a running View, after a completed frame and with no set() since,
\* State.changes() is empty, and an update(force=False) executes no frame
\* (hence dispatches to no sink).
C1_CleanAfterFrame ==
    clean =>
      /\ dirty = {}
      /\ \A t \in Threads : pc[t] \in InFrame => force[t]

\* C1 witness: an unforced update() that found nothing to do after a frame
C1_Witness ==
    \E t \in Threads :
      /\ clean /\ ~frozen /\ sinks.display.made
      /\ Skipped(t) /\ ~force[t] /\ ~frozenAtCall[t]

\* C2: update() executes a frame iff the View is not frozen and (force or
\* State.changes(ignore) is non-empty); only a thread executing a frame
\* allocates or paints the canvas, dispatches to a sink or clears dirty markers.
C2_FrameIff ==
    [][ /\ \A t \in Threads :
             /\ (pc[t] = "frozen" /\ Steps(t)) =>
                   pc'[t] = (IF frozen THEN "release" ELSE "changes")
             /\ (pc[t] = "changes" /\ Steps(t)) =>
                   pc'[t] = (IF force[t] \/ dirty \ ignore_changes # {}
                             THEN "alloc" ELSE "release")
             /\ (pc'[t] = "alloc" /\ Steps(t)) => pc[t] = "changes"
        /\ (canvas' # canvas \/ sinks' # sinks \/ ~(dirty \subseteq dirty')) =>
             \E t \in Threads : pc[t] \in InFrame /\ Steps(t)
      ]_vars

\* C2 witness: a forced frame on a View with nothing dirty
C2_Witness ==
    \E t \in Threads : pc[t] = "alloc" /\ force[t] /\ changes[t] = {} /\ dirty = {}

\* C3: no set() on a non-ignored key is lost: whenever no update() is in its
\* critical section, a key whose stored value differs from what the last
\* dispatched frame shows is still dirty.
C3_NoLostSet ==
    (lock = NoThread /\ sinks.display.made) =>
      \A k \in (DOMAIN state) \ ignore_changes :
        Shown(sinks.display, k) # state[k] => k \in dirty

\* C4: at most one thread is inside update()'s critical section.
C4_MutualExclusion ==
    \A t1, t2 \in Threads :
      (pc[t1] \in Critical /\ pc[t2] \in Critical) => (t1 = t2 /\ lock = t1)

\* C4 witness: one thread paints while the other waits for the lock
C4_Witness ==
    \E t1, t2 \in Threads : pc[t1] = "draw" /\ idx[t1] > 0 /\ pc[t2] = "acquire"

\* C5: the frozen flag is never cleared, and an update() that starts while it
\* is set, forced or not, executes no frame: it leaves the canvas and the
\* sinks untouched.
C5_FrozenSuppresses ==
    [][ /\ frozen => frozen'
        /\ \A t \in Threads :
             (frozenAtCall[t] /\ Steps(t)) =>
               /\ canvas' = canvas
               /\ sinks' = sinks
               /\ pc[t] \notin InFrame /\ pc'[t] \notin InFrame
      ]_vars

\* C5 witness: a forced update() on a frozen View took the early return
C5_Witness ==
    \E t \in Threads : frozen /\ frozenAtCall[t] /\ force[t] /\ Skipped(t)

\* C6: an update() that starts on a frozen View changes no widget value and
\* no dirty marker, even with a non-empty patch.
C6_FrozenUpdateNoOp ==
    [][ \A t \in Threads :
          (frozenAtCall[t] /\ Steps(t)) => (state' = state /\ dirty' = dirty)
      ]_vars

\* C7: no widget is drawn and no sink receives a frame in a state in which
\* the frozen flag is set.
C7_NoDrawWhileFrozen ==
    [][ frozen => \A t \in Threads : ~(pc[t] \in {"draw", "web", "render"} /\ Steps(t))
      ]_vars

\* C8: with fps <= 0 the ignore set is {name, uptime} and there is no ticker,
\* and an unforced update() executes a frame iff a key other than name and
\* uptime is dirty; with fps > 0 the ignore set is empty and the ticker runs.
C8_IgnoreSet ==
    [][ /\ fps <= 0 => (ignore_changes = {"name", "uptime"} /\ pc["ticker"] = "off")
        /\ fps > 0 => (ignore_changes = {} /\ pc["ticker"] # "off")
        /\ \A t \in Threads :
             (fps <= 0 /\ pc[t] = "changes" /\ Steps(t) /\ ~force[t]) =>
               (pc'[t] = "alloc" <=> dirty \ {"name", "uptime"} # {})
      ]_vars

\* C8 witness: without periodic refresh, an unforced update() skipped the
\* frame although uptime was set
C8_Witness ==
    /\ fps = 0 /\ ~frozen
    /\ "uptime" \in dirty /\ dirty \subseteq {"name", "uptime"}
    /\ Skipped("agent") /\ ~force["agent"]

\* the label View.set puts before a value, and what it puts after it
Label(key) ==
    CASE key = "channel" -> <<"C","H"," ">>
      [] key = "aps" -> <<"A","P","S"," ">>
      [] key = "uptime" -> <<"U","P"," ">>
      [] key = "shakes" -> <<"P","W","N","D"," ">>
      [] OTHER -> <<>>

Suffix(key) == IF key = "name" THEN <<">">> ELSE <<>>

\* C9: set(key, v) stores 'CH v', 'APS v', 'UP v', 'PWND v', 'v>' for channel,
\* aps, uptime, shakes, name and v itself for every other key, touching no
\* other widget; the frame of the following update() shows the stored values.
C9_SetFormats ==
    [][ /\ (pc["agent"] = "patch" /\ Steps("agent")) =>
             LET k == Head(new_data["agent"])[1]
                 v == Head(new_data["agent"])[2]
             IN IF k \in DOMAIN state
                THEN state' = [state EXCEPT ![k] = Label(k) \o v \o Suffix(k)]
                ELSE state' = state
        /\ (pc["agent"] = "render" /\ Steps("agent")) =>
             \A k \in DOMAIN state : Shown(sinks'.display, k) = state[k]
      ]_vars

\* C9 witness: channel was set to 6 and the frame shows 'CH 6'
C9_Witness ==
    /\ state["channel"] = <<"C","H"," ","6">>
    /\ pc["agent"] = "idle"
    /\ sinks.display.made
    /\ Shown(sinks.display, "channel") = <<"C","H"," ","6">>

\* C10: with no other writer of name, after two consecutive ticks the stored
\* name equals its value before them.
C10_NameToggles == Len(nameHist) = 2 => state["name"] = nameHist[1]

----------------------------------------------------------------------------
(* The steps of a frame *)

IsPrefix(a, b) == Len(a) <= Len(b) /\ SubSeq(b, 1, Len(a)) = a

\* the steps of a whole frame over the widgets now in State
FullTrace == <<"alloc", "hook">> \o order \o <<"web", "render", "reset">>

\* thread t has just run State.reset()
ResetBy(t) == pc[t] = "release" /\ trace[t] # <<>>

\* C11: the steps of an update's frame are taken in the order canvas
\* allocation, ui_update hook, every widget's draw, preview forwarder,
\* render callbacks, State.reset(), each at most once and each exactly once
\* when the frame completes; dirty markers are cleared only by the reset that
\* ends a whole frame, and an update that skips the frame takes none of the
\* steps.
C11_FrameStepOrder ==
    /\ [](\A t \in Threads :
            /\ IsPrefix(trace[t], FullTrace)
            /\ ResetBy(t) => trace[t] = FullTrace
            /\ trace[t] # <<>> => lock = t /\ (force[t] \/ changes[t] # {}))
    /\ [][\/ dirty \subseteq dirty'
          \/ \E t \in Threads :
               /\ dirty' = {}
               /\ trace[t] = SubSeq(FullTrace, 1, Len(FullTrace) - 1)
               /\ trace'[t] = FullTrace]_vars

C11_Witness ==
    \E t \in Threads : ResetBy(t) /\ loaded /\ trace[t] = FullTrace /\ dirty = {}

----------------------------------------------------------------------------
(* The paint order *)

\* the keys of the widgets painted on canvas c, in the order of painting
Keys(c) == [i \in 1..Len(c.px) |-> c.px[i].key]

\* thread t is painting, or has painted, the widgets of its frame
Painting(t) == pc[t] \in {"draw", "web", "render", "reset"}

\* C12: a frame paints every widget now in State exactly once and in the
\* insertion order of the keys: the built-in widgets in the constructor's
\* order, then the element an extension added; every dispatched frame has
\* that order, whatever was set in between.
C12_PaintOrder ==
    /\ order \in {PaintOrder, AddKey(PaintOrder, "memtemp")}
    /\ DOMAIN state = {order[i] : i \in 1..Len(order)}
    /\ \A t \in Threads :
         /\ Painting(t) => Keys(canvas) = SubSeq(order, 1, idx[t])
         /\ pc[t] \in {"web", "render", "reset"} => Keys(canvas) = order
    /\ \A s \in DOMAIN sinks :
         sinks[s].made =>
           Keys(sinks[s]) \in {PaintOrder, AddKey(PaintOrder, "memtemp")}

C12_Witness ==
    /\ sinks.second.made
    /\ Keys(sinks.second) = AddKey(PaintOrder, "memtemp")
    /\ state["name"] # ExtName
    /\ \E t \in Threads : pc[t] = "render" /\ Keys(canvas) = PaintOrder

----------------------------------------------------------------------------
(* Ownership of the canvas *)

\* this step paints on the image in View._canvas
Paints == canvas'.px # canvas.px /\ canvas'.px # <<>>

\* C13: a frame paints on a newly allocated image: every step that paints is
\* taken by the holder of the lock on an image that no sink has been given,
\* and the frame's first widget is painted on the blank image; once the image
\* has been handed to the preview forwarder or a render callback no step
\* paints on it.
C13_FreshCanvas ==
    [][Paints =>
         /\ ~handed
         /\ \E t \in Threads :
              /\ lock = t
              /\ pc[t] = "draw"
              /\ idx[t] = 0 => canvas = BlankCanvas]_vars

C13_Witness ==
    /\ \E t \in Threads : pc[t] = "draw" /\ idx[t] > 0
    /\ ~handed
    /\ sinks.display.made
    /\ sinks.second.made
    /\ sinks.web.made

----------------------------------------------------------------------------
(* The render lock *)

\* the lock is held only inside the with blocks
HeldInside ==
    /\ \A t \in Threads : lock = t => pc[t] \in Critical
    /\ lock = "ext" => upc \in {"remove", "release"}
    /\ \A t \in Threads : pc[t] \in Critical => lock = t
    /\ upc \in {"remove", "release"} => lock = "ext"

----------------------------------------------------------------------------
(* Failing callbacks and widgets *)

\* the render callbacks that do not hold the image of View._canvas after the step
Missed == {i \in 1..Len(render_cbs) : sinks'[render_cbs[i]] # canvas}

\* C15: the dispatch of a frame to the render callbacks, also when one of
\* them fails, gives the frame to every other callback and goes on to
\* State.reset().
C15_SinkFaultContained ==
    [][\A t \in Threads :
         pc[t] = "render" /\ pc'[t] # "render" =>
           /\ pc'[t] = "reset"
           /\ Cardinality(Missed) <= 1]_vars

\* C16: a step of the paint loop, also when the widget's draw fails, goes on
\* with the next widget in paint order and, after the last one, with the
\* dispatch of the frame.
C16_DrawFaultContained ==
    [][\A t \in Threads :
         pc[t] = "draw" /\ (pc'[t] # "draw" \/ idx'[t] # idx[t]) =>
           /\ idx'[t] = idx[t] + 1
           /\ pc'[t] = IF idx'[t] = Len(order) THEN "web" ELSE "draw"]_vars

----------------------------------------------------------------------------
(* set() on a key that is not in State *)

\* thread t runs the ui_update hook of the loaded plugin after its element
\* was removed
StaleHook(t) ==
    /\ pc[t] = "hook"
    /\ pc'[t] # "hook"
    /\ loaded
    /\ "memtemp" \notin DOMAIN state

----------------------------------------------------------------------------
(* Unloading an extension *)

\* the keys painted so far on the image of the running frame
PaintedKeys == {canvas.px[i].key : i \in 1..Len(canvas.px)}

\* C18: MemTemp.on_unload removes its element under the render lock: while it
\* is inside its with block no thread is inside update()'s, the keys of State
\* change only then, a frame painted after the removal does not paint the
\* removed element, and an on_unload called from outside update() always
\* gets the lock, removes the element and returns.
C18_UnloadUnderLock ==
    /\ [](upc \in {"remove", "release"} => \A t \in Threads : pc[t] \notin Critical)
    /\ [](\A t \in Threads :
            Painting(t) /\ "memtemp" \notin DOMAIN state => "memtemp" \notin PaintedKeys)
    /\ [][order' # order =>
            /\ upc = "remove"
            /\ lock = "ext"
            /\ \A t \in Threads : pc[t] \notin Critical /\ trace[t] = <<>>]_vars
    /\ (upc = "acquire") ~> (upc = "unloaded" /\ "memtemp" \notin DOMAIN state)

C18_Witness ==
    /\ upc = "remove"
    /\ \A t \in Threads : pc[t] = "acquire"
    /\ "memtemp" \in DOMAIN state
    /\ sinks.display.made

----------------------------------------------------------------------------
(* The animation of a Text widget *)

\* C19: with N > 1 frames set, the k-th draw after set_frames shows
\* frames[(k-1) mod N], so the (N+1)-th draw shows frame 0 again, and the
\* frame index stays in 0..N-1 (it is k mod N after k draws).
C19_FrameCycle ==
    LET N == Len(faceFrames) IN
    N > 1 =>
      /\ faceIndex \in 0..(N - 1)
      /\ faceIndex = kdraws % N
      /\ textOp.op = "draw" =>
           /\ kdraws >= 1
           /\ faceImage = faceFrames[((kdraws - 1) % N) + 1]
           /\ kdraws = N + 1 => faceImage = faceFrames[1]

C19_Witness ==
    /\ Len(faceFrames) = 3
    /\ faceFrames[1] # faceFrames[3]
    /\ kdraws = 4
    /\ textOp.op = "draw"
    /\ faceImage = faceFrames[1]
    /\ faceIndex = 1

\* C20: set_frames, after any number of draws and from any index, leaves the
\* index at 0 and shows the first frame of the new list, or no image when the
\* list is empty or None.
C20_SetFramesResets ==
    textOp.op = "set_frames" =>
      /\ faceIndex = 0
      /\ faceFrames = (IF textOp.arg.given THEN textOp.arg.frames ELSE <<>>)
      /\ faceImage =
           IF textOp.arg.given /\ textOp.arg.frames # <<>>
           THEN textOp.arg.frames[1]
           ELSE None

C20_Witness ==
    /\ textOp.op = "set_frames"
    /\ textOp.prior = 2
    /\ Len(faceFrames) = 2
    /\ faceImage = faceFrames[1]
    /\ faceFrames[1] # faceFrames[2]

----------------------------------------------------------------------------
(* Face images and the text fallback *)

\* this step is a draw call on the face widget
DrawStep == kdraws' = kdraws + 1

\* C21: a still image never advances: a draw call on a Text widget with at
\* most one frame, or made right after a static image was assigned by
\* View.set('face') (also when a longer frame list was installed earlier),
\* changes neither the visible image nor the frame index.
C21_StillImageStays ==
    [][DrawStep /\ (Len(faceFrames) <= 1 \/ textOp.op = "image") =>
         /\ faceImage' = faceImage
         /\ faceIndex' = faceIndex]_vars

\* C22: after set('face', v) found an asset of more than one frame, the face
\* widget holds that asset's frame list, so that the following draws cycle
\* through it.
C22_AnimatedInstalled ==
    (textOp.op = "image" /\ Len(AssetFrames(FaceName(textOp.face))) > 1) =>
      faceFrames = AssetFrames(FaceName(textOp.face))

C24_NoStaleImage ==
    [][DrawStep /\ textOp.op = "text" =>
         textOp'.shown = [kind |-> "text", what |-> textOp.face]]_vars

----------------------------------------------------------------------------
(* The face frame cache *)

\* the keys that have an entry in _face_cache
Cached == {k \in CacheKeys : fc.cache[k] # EmptyList}

\* C25: with calls made one after the other, all calls for one key (names
\* equal ignoring case, same size) since the last clear_cache() return the
\* same list object and load at most once; a cache hit returns the entry
\* without loading; different sizes have different lists; after
\* clear_cache() a call returns a list made after the clear.
C25_Memoized ==
    /\ \A k \in CacheKeys :
         /\ Cardinality(fc.given[k]) <= 1
         /\ fc.loads[k] <= 1
         /\ fc.given[k] \cap fc.old = {}
         /\ \A o \in fc.given[k] : fc.madeFor[o] = k /\ fc.cache[k] = o
    /\ fc.out["c1"] = "hit" /\ fc.ret["c1"] \notin fc.old =>
         /\ fc.ret["c1"] = fc.cache[KeyOf("c1")]
         /\ fc.ret["c1"] # EmptyList

C25_Witness ==
    /\ fc.out["c1"] = "hit"
    /\ fc.nm["c1"] = "Happy"
    /\ fc.old # {}
    /\ fc.ret["c1"] \notin fc.old
    /\ fc.given[KeyOf("c1")] = {fc.ret["c1"]}

\* C26: a call for an asset that is missing or cannot be decoded returns an
\* empty list and does not raise, every time, and leaves the cache as it
\* was: every entry of the cache is a list that was loaded for its key.
C26_MissingIsEmpty ==
    /\ [](\A c \in Callers :
            /\ fc.out[c] # "raised"
            /\ fc.out[c] \in {"missing", "error"} => fc.ret[c] = EmptyList)
    /\ [](\A k \in Cached : fc.madeFor[fc.cache[k]] = k)
    /\ [][\A c \in Callers :
            fc'.out[c] \in {"missing", "error"} /\ fc.pc[c] # "idle" =>
              fc'.cache = fc.cache]_vars

C26_Witness ==
    /\ fc.out["c1"] = "error"
    /\ fc.out["c2"] = "loaded"
    /\ KeyOf("c1") = KeyOf("c2")
    /\ fc.old = {}
    /\ fc.made = 1
    /\ InFlight = {}

\* a step of caller c's call is possible
CanStep(c) == ENABLED (FcLookup(c) \/ FcExists(c) \/ FcLoad(c) \/ FcStore(c))

\* C27: callers of get_face_frames never wait for one another; every
\* non-empty list a call returns was loaded for the call's key; once no call
\* is in progress the cache holds, for every key a call has returned a list
\* for, one of those lists, and a call that finds the entry returns it
\* without loading.
C27_DuplicateLoads ==
    /\ [](\A c \in InFlight : CanStep(c))
    /\ [](\A c \in Callers :
            fc.out[c] \in {"hit", "loaded"} =>
              fc.ret[c] # EmptyList /\ fc.madeFor[fc.ret[c]] = KeyOf(c))
    /\ [](InFlight = {} =>
            \A k \in CacheKeys : fc.given[k] # {} => fc.cache[k] \in fc.given[k])
    /\ [][\A c \in Callers :
            (fc.pc[c] = "lookup" /\ fc'.pc[c] # "lookup"
               /\ fc.cache[KeyOf(c)] # EmptyList) =>
              /\ fc'.ret[c] = fc.cache[KeyOf(c)]
              /\ fc'.made = fc.made
              /\ fc'.cache = fc.cache]_vars

C27_Witness ==
    /\ InFlight = {}
    /\ fc.out["c1"] = "hit"
    /\ fc.out["c2"] = "loaded"
    /\ Cardinality(fc.given[KeyOf("c1")]) = 2
    /\ fc.old = {}

\* C28: CurvedText.draw changes nothing on the canvas and raises nothing when
\* the value is None, the empty string, or only whitespace and newlines, and
\* also when no font is set.
Blank(v) == v = None \/ \A i \in 1..Len(v) : v[i] \in {" ", NL}

C28_BlankIsNoOp ==
    (cv.called /\ (Blank(cv.value) \/ cv.font = NoFont))
        => (cv.placed = <<>> /\ cv.pasted = {} /\ ~cv.raised)

C28_Witness ==
    /\ cv.called
    /\ cv.value = <<" ", NL, " ">>
    /\ cv.font # NoFont
    /\ cv.placed = <<>>

\* C29: drawing a single-character string places the glyph at start_angle,
\* whatever flip, the glyph width and the radius are.
C29_SingleAtStart ==
    (cv.called /\ ~Blank(cv.value) /\ Len(CurvedTextOf(cv.value)) = 1
        /\ Len(cv.placed) = 1)
        => cv.placed[1].angle = cv.start_angle

\* C30: render of every sink returns normally for any canvas and any
\* internal failure, initialized or not, and the Waveshare sink sends nothing
\* to the hardware unless initialize() completed successfully.
C30_BestEffortAndInitialized ==
    /\ ~sk.raised
    /\ (sk.kind = "waveshare" /\ sk.sent) => sk.init = "ok"

\* the first half alone holds
SinkNeverRaises == ~sk.raised

\* C31: every widget drawn by a frame shows a value at least as recent as the
\* last set() for its key that completed before the frame's update() took the
\* lock: the value the key held when the lock was taken, or one stored since.
LastPainted(c) == c.px[Len(c.px)]

C31_FreshValues ==
    [][\A t \in Threads :
         (pc[t] = "draw" /\ idx'[t] = idx[t] + 1) =>
            LET k == order[idx[t] + 1] IN
              /\ lock = t
              /\ LastPainted(canvas').key = k
              /\ LastPainted(canvas').value \in
                   (IF k \in DOMAIN seen.vals THEN seen.vals[k] ELSE {state[k]})]_vars

\* the agent stored a new status while the ticker's frame was under way, and
\* the frame painted it
C31_Witness ==
    /\ lock = "ticker"
    /\ pc["ticker"] = "web"
    /\ "status" \in DOMAIN seen.vals
    /\ seen.vals["status"] = {InitialState["status"], Hi}
    /\ \E i \in 1..Len(canvas.px) :
         canvas.px[i].key = "status" /\ canvas.px[i].value = Hi

\* a widget's draw or a callback raises in t's frame: the thread leaves
\* update() from the paint loop or from the dispatch loop
Aborts(t) ==
    \/ pc[t] = "draw" /\ pc'[t] \notin {"draw", "web"}
    \/ pc[t] = "render" /\ pc'[t] \notin {"render", "reset"}

InLoop ==
    {"tick", "tick_set", "acquire", "frozen", "changes", "alloc", "hook", "draw", "web",
     "render", "reset", "release"}

\* the next tick can start (the model stops the toggling at MaxNameLen)
NextTickReady ==
    Len(Format("name", ToggleName(StateGet("name")))) <= MaxNameLen => ENABLED TickGet

Called == [j \in 1..Len(api.calls) |-> api.calls[j].cb]

\* C34: the registered sinks form a set: on_render registers a callback once
\* however often it is called, and an executed frame calls every registered
\* callback exactly once, in the order of first registration, all with the
\* frame's canvas.
C34_SinksAreASet ==
    /\ render_cbs = api.first
    /\ \A j, k \in 1..Len(render_cbs) : render_cbs[j] = render_cbs[k] => j = k
    /\ api.op \in {"dispatch", "on_render"} /\ api.i > 0 =>
          Called = SubSeq(render_cbs, 1, api.i - 1)
    /\ api.op = "dispatched" => Called = render_cbs
    /\ \A j \in 1..Len(api.calls) : api.calls[j].canvas = api.frame

\* a callback was registered again, and a second frame called the three
\* callbacks in the order of their first registration
C34_Witness ==
    /\ api.op = "dispatched"
    /\ api.again
    /\ api.frame = 2
    /\ render_cbs = <<"second", "display", "third">>
    /\ Called = render_cbs

\* some pixel of the canvas lies in the tile's bounding box
Intersects(t) ==
    \E x \in 0..(CanvasSide - 1), y \in 0..(CanvasSide - 1) :
        /\ t.px <= x /\ x < t.px + t.w
        /\ t.py <= y /\ y < t.py + t.h

\* C35: CurvedText.draw pastes a rotated glyph exactly when its tile's
\* bounding box intersects the canvas, and the angle advances by the glyph's
\* span from every glyph to the next, pasted or skipped.
C35_PastedIffIntersects ==
    cv.called =>
        /\ Len(cv.tiles) = Len(cv.placed)
        /\ cv.pasted = {i \in 1..Len(cv.placed) : Intersects(cv.tiles[i])}
        /\ \A i \in 1..(Len(cv.placed) - 1) :
              cv.placed[i + 1].angle = cv.placed[i].angle
                  + Direction(cv.flip)
                    * AngleSpan(IF cv.tl THEN cv.font ELSE FallbackWidth, cv.radius)

\* the first glyph of three lay outside and was skipped, the other two were
\* pasted, further along the arc
C35_Witness ==
    /\ cv.called
    /\ Len(cv.placed) = 3
    /\ cv.pasted = {2, 3}
    /\ ~Intersects(cv.tiles[1])
    /\ cv.placed[2].angle # cv.placed[1].angle

C37_HasElementTellsMembership ==
    api.op = "has_element" => (Truthy(api.result) <=> api.key \in DOMAIN state)

\* the text ends with the suffix
EndsWith(s, suffix) ==
    /\ Len(s) >= Len(suffix)
    /\ SubSeq(s, Len(s) - Len(suffix) + 1, Len(s)) = suffix

\* the filled bars the meter shows for a signal strength
BarsFor(rssi) ==
    CASE rssi >= -67 -> 4
      [] -70 <= rssi /\ rssi < -67 -> 3
      [] -80 <= rssi /\ rssi < -70 -> 2
      [] OTHER -> 1

\* set_closest_peer has made its two set() calls
PeerStored == api.op = "set_closest_peer" /\ pc["agent"] \notin InPeerCall

\* C38: set_closest_peer with a peer stores a friend_name that starts with 4
\* bar characters, n filled then 4 - n empty, n given by the signal
\* strength; ' of <total>' is appended only if 1 < total <= 9000 and
\* ' of over 9000' if total > 9000; with no peer friend_face and friend_name
\* are set to None; in every case update() is called exactly once.
C38_ClosestPeer ==
    /\ (PeerStored /\ api.peer.present) =>
         LET nm == StateGet("friend_name")
             n == BarsFor(api.peer.rssi)
         IN /\ Len(nm) >= 4
            /\ \A i \in 1..4 : nm[i] = IF i <= n THEN Filled ELSE Empty
            /\ \A i \in 5..Len(nm) : nm[i] \notin {Filled, Empty}
            /\ EndsWith(nm, Of \o Dec(api.total)) <=> (1 < api.total /\ api.total <= 9000)
            /\ EndsWith(nm, OfOver) <=> api.total > 9000
            /\ api.total <= 1 => EndsWith(nm, <<")">>)
            /\ StateGet("friend_face") = api.peer.face
    /\ (PeerStored /\ ~api.peer.present) =>
         /\ StateGet("friend_name") = None
         /\ StateGet("friend_face") = None
    /\ api.op = "set_closest_peer" =>
         api.updates = IF pc["agent"] \in InPeerCall THEN 0 ELSE 1

\* a peer at -70 among 9000 was stored with three bars and ' of 9000', and
\* the call's one update() has returned
C38_Witness ==
    /\ PeerStored
    /\ pc["agent"] = "idle"
    /\ api.peer.present /\ api.peer.rssi = -70 /\ api.total = 9000
    /\ api.updates = 1
    /\ SubSeq(StateGet("friend_name"), 1, 4) = <<Filled, Filled, Filled, Empty>>
    /\ EndsWith(StateGet("friend_name"), <<" ","o","f"," ","9","0","0","0">>)

\* how often e was logged
KpCount(e) == Cardinality({i \in 1..Len(kp.log) : kp.log[i] = e})

\* the failed attempts before the i-th entry of the log
RemovesBefore(i) == Cardinality({j \in 1..(i - 1) : kp.log[j] = "remove"})

\* the i-th entry of the log was made in the retry loop
InRetryLoop(i) == RemovesBefore(i) < max_retries

\* C39: KeyPair construction loads at most 3 times in its retry loop and
\* deletes both key files after each failed load, so that the next attempt
\* generates them, after calling on_keys_generation(); on_starting() is
\* called exactly once if and only if some load succeeds, nothing is retried
\* after the first successful load, and if the fallback's load fails the
\* constructor raises without calling on_starting().
C39_KeyPairRetries ==
    /\ Cardinality({i \in 1..Len(kp.log) :
                      kp.log[i] \in {"load_ok", "load_failed"} /\ InRetryLoop(i)})
          <= max_retries
    /\ \A i \in 1..Len(kp.log) :
         /\ (kp.log[i] = "load_failed" /\ InRetryLoop(i) /\ i < Len(kp.log)) =>
               kp.log[i + 1] = "remove"
         /\ (kp.log[i] = "remove" /\ InRetryLoop(i + 1) /\ i < Len(kp.log)) =>
               kp.log[i + 1] = "on_keys_generation"
         /\ (kp.log[i] = "generate" /\ InRetryLoop(i)) =>
               (i > 1 /\ kp.log[i - 1] = "on_keys_generation")
         /\ kp.log[i] = "load_ok" =>
               \A j \in (i + 1)..Len(kp.log) : kp.log[j] = "on_starting"
    /\ (kp.pc = "check" /\ kp.attempt > 0) =>
          (kp.priv = "missing" /\ kp.pub = "missing")
    /\ KpCount("on_starting") <= 1
    /\ KpCount("on_starting") = 1 => KpCount("load_ok") >= 1
    /\ kp.pc = "done" => (KpCount("on_starting") = 1 /\ KpCount("load_ok") = 1)
    /\ (kp.pc = "raised" /\ kp.log # <<>> /\ kp.log[Len(kp.log)] = "load_failed") =>
          KpCount("on_starting") = 0

====
